---- MODULE Spec2Model ----
(***************************************************************************)
(* State-machine model of the e-commerce ML microservice                   *)
(* (src/ml_service/main.py): series preparation, evaluation metrics,       *)
(* backtesting, model selection, and the persistence of forecasts,         *)
(* anomalies and model runs in PostgreSQL.                                  *)
(*                                                                         *)
(* Numbers.  Python floats are modelled in fixed point: a KPI value, a     *)
(* prediction or a metric is an integer count of thousandths (1.234 is     *)
(* 1234), so that rounding to 2 decimals is a real operation.  The         *)
(* improvement stored with a model run is a count of 1e-5 (it is rounded   *)
(* to 4 decimals).  Python's None, a SQL NULL and a NaN cell are the empty *)
(* sequence None, a present value x is Some(x) = <<x>>.  Dates are day     *)
(* numbers.                                                                *)
(***************************************************************************)
EXTENDS Integers, Sequences, FiniteSets, TLC

None == <<>>

Some(x) == <<x>>

Abs(x) == IF x < 0 THEN -x ELSE x

Max(a, b) == IF a >= b THEN a ELSE b

Min(a, b) == IF a <= b THEN a ELSE b

(* A LET definition is evaluated at each of its uses, the variable of a set *)
(* constructor once: Bind(v, F) is F(v) with v evaluated once, as a local  *)
(* variable of the code is.                                                *)
Bind(v, F(_)) == CHOOSE r \in {F(x) : x \in {y \in {v} : y = y}} : TRUE

RECURSIVE SumSeq(_)
SumSeq(s) == IF s = <<>> THEN 0 ELSE Head(s) + SumSeq(Tail(s))

(* Long division: trunc(|num| * 10^digits / den) with the sign of num,     *)
(* one decimal digit at a time so that no intermediate exceeds 32 bits.    *)
RECURSIVE DivStep(_, _, _, _)
DivStep(q, r, den, digits) ==
    IF digits = 0 THEN q
    ELSE DivStep(q * 10 + ((r * 10) \div den), (r * 10) % den, den, digits - 1)

DivDigits(num, den, digits) ==
    LET a == Abs(num)
        q == DivStep(a \div den, a % den, den, digits)
    IN IF num < 0 THEN -q ELSE q

(* round(x, n) on a fixed-point value whose last digit is the (n+1)-th     *)
(* decimal: round half to even, as Python's round does on exact decimals.  *)
RoundLastDigit(x) ==
    LET a == Abs(x)
        q == a \div 10
        r == a % 10
        m == IF r > 5 \/ (r = 5 /\ q % 2 = 1) THEN (q + 1) * 10 ELSE q * 10
    IN IF x < 0 THEN -m ELSE m

(* round(x, 2) of a value in thousandths. *)
Round2(x) == RoundLastDigit(x)

RECURSIVE SqrtSearch(_, _, _)
SqrtSearch(x, lo, hi) ==
    IF lo >= hi THEN lo
    ELSE LET mid == (lo + hi + 1) \div 2
         IN IF mid * mid <= x THEN SqrtSearch(x, mid, hi)
            ELSE SqrtSearch(x, lo, mid - 1)

(* floor(sqrt(x)) *)
ISqrt(x) == SqrtSearch(x, 0, Min(x, 46340))

(***************************************************************************)
(* Program constants                                                       *)
(***************************************************************************)
VALID_METRICS ==
    {"total_revenue", "total_orders", "unique_customers", "avg_order_value",
     "total_items_sold"}

(* FORECAST_MODELS.keys(), in insertion order *)
FORECAST_MODELS == <<"prophet", "ets">>

ModelDisplayName(m) == IF m = "prophet" THEN "Prophet" ELSE "ETS"

DEFAULT_FORECAST_MODEL == "auto"

SERVICE_VERSION == "2.0.0"

CODE_VERSION == "2024.01.1"

DEFAULT_TEST_DAYS == 14

BACKTEST_MIN_EXTRA == 30

NAIVE_PERIOD == 7

ETS_MIN_DAYS == 14

(***************************************************************************)
(* prepare_metric_series                                                   *)
(* A raw frame is a sequence of rows [ds, y], one per date, in ascending   *)
(* date order (get_daily_kpis orders by full_date); y is Some(v) or None   *)
(* (a NULL cell).  The prepared frame is a sequence of rows [ds, y] with y *)
(* a number.                                                               *)
(***************************************************************************)
DropNa(df) == SelectSeq(df, LAMBDA r : r.y # None)

FrameDates(df) == {df[i].ds : i \in 1..Len(df)}

MinDate(df) == CHOOSE d \in FrameDates(df) : \A e \in FrameDates(df) : d <= e

MaxDate(df) == CHOOSE d \in FrameDates(df) : \A e \in FrameDates(df) : d >= e

(* a frame left on the index it came with: no reindexing to daily rows *)
KeepIndex(df) == df

(* set_index('ds').sort_index().asfreq('D'): one row per day from the      *)
(* first to the last index value, NaN where the index had no such day.     *)
AsFreqDaily(df) ==
    IF df = <<>> THEN <<>>
    ELSE LET lo == MinDate(df)
             hi == MaxDate(df)
         IN [k \in 1..(hi - lo + 1) |->
                LET d == lo + k - 1
                IN IF d \in FrameDates(df)
                   THEN [ds |-> d,
                         y |-> (CHOOSE r \in {df[i] : i \in 1..Len(df)} : r.ds = d).y]
                   ELSE [ds |-> d, y |-> None]]

FillNaZero(df) ==
    [k \in 1..Len(df) |->
        [ds |-> df[k].ds, y |-> IF df[k].y = None THEN 0 ELSE df[k].y[1]]]

prepare_metric_series(df) ==
    Bind(DropNa(df), LAMBDA kept :
    Bind(AsFreqDaily(kept), LAMBDA daily : FillNaZero(daily)))

(***************************************************************************)
(* Evaluation metrics (actual and predicted: sequences of equal length)    *)
(***************************************************************************)
(* a mean over all positions, a zero actual counting as an error of 0 *)
mape_over_all_positions(actual, predicted) ==
    IF actual = <<>> THEN 0
    ELSE SumSeq([i \in 1..Len(actual) |->
                    IF actual[i] # 0
                    THEN DivDigits(Abs(actual[i] - predicted[i]) * 100,
                                   Abs(actual[i]), 3)
                    ELSE 0]) \div Len(actual)

calculate_mape(actual, predicted) ==
    LET mask == {i \in 1..Len(actual) : actual[i] # 0}
        terms == [i \in 1..Len(actual) |->
                     IF i \in mask
                     THEN DivDigits(Abs(actual[i] - predicted[i]) * 100,
                                    Abs(actual[i]), 3)
                     ELSE 0]
    IN IF mask = {} THEN 0 ELSE SumSeq(terms) \div Cardinality(mask)

calculate_smape(actual, predicted) ==
    LET mask == {i \in 1..Len(actual) : Abs(actual[i]) + Abs(predicted[i]) # 0}
        terms == [i \in 1..Len(actual) |->
                     IF i \in mask
                     THEN DivDigits(2 * Abs(actual[i] - predicted[i]) * 100,
                                    Abs(actual[i]) + Abs(predicted[i]), 3)
                     ELSE 0]
    IN IF mask = {} THEN 0 ELSE SumSeq(terms) \div Cardinality(mask)

calculate_rmse(actual, predicted) ==
    LET sq == [i \in 1..Len(actual) |->
                  (actual[i] - predicted[i]) * (actual[i] - predicted[i])]
    IN IF Len(actual) = 0 THEN 0 ELSE ISqrt(SumSeq(sq) \div Len(actual))

calculate_mae(actual, predicted) ==
    LET ab == [i \in 1..Len(actual) |-> Abs(actual[i] - predicted[i])]
    IN IF Len(actual) = 0 THEN 0 ELSE SumSeq(ab) \div Len(actual)

(* train.mean(); the mean of an empty series (NaN) is not reached from     *)
(* backtest_model, whose fit raises first, and is written 0.               *)
SeriesMean(train) == IF train = <<>> THEN 0 ELSE SumSeq(train) \div Len(train)

(* a baseline that repeats the last training value *)
naive_last_value(train, horizon) == [k \in 1..horizon |-> train[Len(train)]]

(* i ranges over range(horizon), 0-based; train.iloc[-k] is the k-th value *)
(* from the end.                                                           *)
naive_baseline_forecast(train, horizon) ==
    IF Len(train) < NAIVE_PERIOD
    THEN [k \in 1..horizon |-> SeriesMean(train)]
    ELSE [k \in 1..horizon |->
             train[Len(train) - (NAIVE_PERIOD - ((k - 1) % NAIVE_PERIOD)) + 1]]

(***************************************************************************)
(* The forecasting libraries (Prophet, statsmodels ExponentialSmoothing)   *)
(* are outside the program: what a fit and its prediction return is an     *)
(* input, drawn from LibOutcomes.  "raise" is a fit that throws; the other *)
(* outcomes name the predicted values.  A fit on fewer than 2 rows throws  *)
(* in both libraries.                                                      *)
(***************************************************************************)
LibOutcomes == {"raise", "exact", "flat", "neg"}

LibRaises(outcome, train) == outcome = "raise" \/ Len(train) < 2

LibPredict(outcome, actuals, horizon) ==
    [k \in 1..horizon |->
        CASE outcome = "exact" -> IF k <= Len(actuals) THEN actuals[k] ELSE 0
          [] outcome = "flat" -> 4321
          [] OTHER -> 1234 - 1000 * k]

(* np.clip(predictions, 0, None) *)
ClipAtZero(predictions) ==
    [k \in 1..Len(predictions) |-> Max(0, predictions[k])]

(* a split that trains on the whole series, the holdout included *)
ILocHeadAll(prepared, test_days) == IF test_days = 0 THEN <<>> ELSE prepared

(* prepared.iloc[:-test_days]: Python's -0 is 0, so test_days = 0 keeps    *)
(* nothing.                                                                *)
ILocHead(prepared, test_days) ==
    IF test_days = 0 THEN <<>>
    ELSE SubSeq(prepared, 1, Len(prepared) - test_days)

(* prepared.iloc[-test_days:]: test_days = 0 keeps everything. *)
ILocTail(prepared, test_days) ==
    IF test_days = 0 THEN prepared
    ELSE SubSeq(prepared, Max(1, Len(prepared) - test_days + 1), Len(prepared))

Column(frame) == [k \in 1..Len(frame) |-> frame[k].y]

(* line 539: the improvement of the backtest bundle, before rounding *)
BacktestImprovement(mape, baseline_mape) ==
    IF baseline_mape > 0
    THEN Some(DivDigits((baseline_mape - mape) * 100, baseline_mape, 3))
    ELSE Some(0)

RoundOpt2(o) == IF o = None THEN None ELSE Some(Round2(o[1]))

Raised(kind, need) == [ok |-> FALSE, error |-> kind, need |-> need]

(* a length check that lets a series one day short of the minimum through *)
InsufficientDataLax(prepared, test_days) ==
    Len(prepared) < test_days + BACKTEST_MIN_EXTRA - 1

(* line 502: the series is too short for the holdout *)
InsufficientData(prepared, test_days) ==
    Len(prepared) < test_days + BACKTEST_MIN_EXTRA

(* backtest_model(df, metric, model_type, test_days); lib is the outcome   *)
(* of the library fit for this model.                                      *)
backtest_model(df, metric, model_type, test_days, lib) ==
    Bind(prepare_metric_series(df), LAMBDA prepared :
    IF InsufficientData(prepared, test_days)
    THEN Raised("InsufficientData", test_days + BACKTEST_MIN_EXTRA)
    ELSE
    Bind(ILocHead(prepared, test_days), LAMBDA train_df :
    Bind(ILocTail(prepared, test_days), LAMBDA test_df :
    IF model_type \notin {"prophet", "ets"}
    THEN Raised("UnsupportedModel", 0)
    ELSE IF LibRaises(lib, train_df)
    THEN Raised("FitFailed", 0)
    ELSE
    Bind(Column(test_df), LAMBDA actuals :
    Bind(ClipAtZero(LibPredict(lib, actuals, test_days)), LAMBDA predictions :
    Bind(naive_baseline_forecast(Column(train_df), test_days),
         LAMBDA baseline_preds :
    Bind(calculate_mape(actuals, predictions), LAMBDA mape :
    Bind(calculate_mape(actuals, baseline_preds), LAMBDA baseline_mape :
        [ok |-> TRUE,
         metric |-> metric,
         model_type |-> model_type,
         mape |-> Round2(mape),
         smape |-> Round2(calculate_smape(actuals, predictions)),
         rmse |-> Round2(calculate_rmse(actuals, predictions)),
         mae |-> Round2(calculate_mae(actuals, predictions)),
         baseline_mape |-> Round2(baseline_mape),
         baseline_rmse |-> Round2(calculate_rmse(actuals, baseline_preds)),
         improvement_pct |-> RoundOpt2(BacktestImprovement(mape, baseline_mape)),
         test_samples |-> test_days,
         train_start |-> train_df[1].ds,
         train_end |-> train_df[Len(train_df)].ds,
         predictions |-> predictions,
         actuals |-> actuals]))))))))

(* a selection loop without the per-candidate try/except: the first        *)
(* candidate that throws ends the loop with nothing evaluated              *)
SelectLoopAbort(df, metric, test_days, libs, i) ==
    IF \E m \in 1..Len(FORECAST_MODELS) :
           ~backtest_model(df, metric, FORECAST_MODELS[m], test_days,
                           libs[FORECAST_MODELS[m]]).ok
    THEN <<>>
    ELSE [m \in 1..Len(FORECAST_MODELS) |->
             backtest_model(df, metric, FORECAST_MODELS[m], test_days,
                            libs[FORECAST_MODELS[m]])]

(* The loop of select_best_model from candidate i on: the result bundles   *)
(* of the candidates whose backtest did not throw, in registration order.  *)
RECURSIVE SelectLoop(_, _, _, _, _)
SelectLoop(df, metric, test_days, libs, i) ==
    IF i > Len(FORECAST_MODELS) THEN <<>>
    ELSE Bind(backtest_model(df, metric, FORECAST_MODELS[i], test_days,
                             libs[FORECAST_MODELS[i]]), LAMBDA r :
            (IF r.ok THEN <<r>> ELSE <<>>)
            \o SelectLoop(df, metric, test_days, libs, i + 1))

(* a selection that takes the last of the bundles with the least mape *)
LastMinMape(results) ==
    results[CHOOSE i \in 1..Len(results) :
        /\ \A j \in 1..Len(results) : results[i].mape <= results[j].mape
        /\ \A j \in (i + 1)..Len(results) : results[j].mape # results[i].mape]

(* sorted(results, key=mape)[0]: the sort is stable, so the first bundle   *)
(* with the least mape.                                                    *)
FirstMinMape(results) ==
    results[CHOOSE i \in 1..Len(results) :
                /\ \A j \in 1..Len(results) : results[i].mape <= results[j].mape
                /\ \A j \in 1..(i - 1) : results[j].mape > results[i].mape]

select_best_model(df, metric, test_days, libs) ==
    Bind(SelectLoop(df, metric, test_days, libs, 1), LAMBDA results :
        IF results = <<>>
        THEN [ok |-> FALSE, error |-> "NoUsableModel", need |-> 0]
        ELSE [ok |-> TRUE,
              best |-> FirstMinMape(results).model_type,
              results |-> results])

(***************************************************************************)
(* normalize_model_name: the request strings the model draws from, and     *)
(* what model.strip().lower() makes of each.                               *)
(***************************************************************************)
ModelStrings == {"", "auto", "prophet", " ETS", "arima"}

StripLower(model) == IF model = " ETS" THEN "ets" ELSE model

normalize_model_name(model) ==
    IF model = "" THEN [ok |-> TRUE, model |-> DEFAULT_FORECAST_MODEL]
    ELSE IF StripLower(model) = DEFAULT_FORECAST_MODEL
    THEN [ok |-> TRUE, model |-> StripLower(model)]
    ELSE IF StripLower(model) \notin {"prophet", "ets"}
    THEN [ok |-> FALSE, model |-> StripLower(model)]
    ELSE [ok |-> TRUE, model |-> StripLower(model)]

(***************************************************************************)
(* build_forecast_records and forecast_with_model                          *)
(***************************************************************************)
(* records built without max(0, .) *)
build_unclipped_records(dates, predicted, lower, upper) ==
    [k \in 1..Len(dates) |->
        [date |-> dates[k],
         predicted |-> Round2(predicted[k]),
         lower_bound |-> Round2(lower[k]),
         upper_bound |-> Round2(upper[k])]]

build_forecast_records(dates, predicted, lower, upper) ==
    [k \in 1..Len(dates) |->
        [date |-> dates[k],
         predicted |-> Round2(Max(0, predicted[k])),
         lower_bound |-> Round2(Max(0, lower[k])),
         upper_bound |-> Round2(Max(0, upper[k]))]]

(* The half-width of Prophet's predictive interval and the standard        *)
(* deviation of the ETS fit residuals, both library results.               *)
LibSpread(outcome) == IF outcome = "flat" THEN 0 ELSE 1500

(* a half-width taken with the opposite sign *)
EtsHalfWidthBelow(resid_std) == 0 - DivDigits(196 * resid_std, 100, 0)

(* 1.96 * resid_std *)
EtsHalfWidth(resid_std) == DivDigits(196 * resid_std, 100, 0)

(* pd.date_range(last + 1 day, periods=forecast_days), and Prophet's       *)
(* future rows after last_date                                             *)
FutureDates(last_date, forecast_days) ==
    [k \in 1..forecast_days |-> last_date + k]

(* a variant that fits the ETS model before it looks at the length of the  *)
(* series                                                                  *)
forecast_fit_first(df, metric, model_type, forecast_days, lib) ==
    Bind(prepare_metric_series(df), LAMBDA prepared :
    IF prepared = <<>> THEN Raised("NoData", 0)
    ELSE IF model_type = "ets" /\ LibRaises(lib, prepared) THEN Raised("FitFailed", 0)
    ELSE IF model_type = "ets" /\ Len(prepared) < ETS_MIN_DAYS
    THEN Raised("InsufficientData", ETS_MIN_DAYS)
    ELSE Raised("UnsupportedModel", 0))

forecast_with_model(df, metric, model_type, forecast_days, lib) ==
    Bind(prepare_metric_series(df), LAMBDA prepared :
    IF prepared = <<>> THEN Raised("NoData", 0)
    ELSE
    Bind(LibPredict(lib, <<>>, forecast_days), LAMBDA yhat :
    Bind(FutureDates(prepared[Len(prepared)].ds, forecast_days), LAMBDA dates :
    IF model_type = "prophet"
    THEN IF LibRaises(lib, prepared) THEN Raised("FitFailed", 0)
         ELSE [ok |-> TRUE,
               records |-> build_forecast_records(dates, yhat,
                   [k \in 1..forecast_days |-> yhat[k] - LibSpread(lib)],
                   [k \in 1..forecast_days |-> yhat[k] + LibSpread(lib)]),
               model_params |-> "prophet_params"]
    ELSE IF model_type = "ets"
    THEN IF Len(prepared) < ETS_MIN_DAYS
         THEN Raised("InsufficientData", ETS_MIN_DAYS)
         ELSE IF LibRaises(lib, prepared) THEN Raised("FitFailed", 0)
         ELSE [ok |-> TRUE,
               records |-> build_forecast_records(dates, yhat,
                   [k \in 1..forecast_days |->
                       yhat[k] - EtsHalfWidth(LibSpread(lib))],
                   [k \in 1..forecast_days |->
                       yhat[k] + EtsHalfWidth(LibSpread(lib))]),
               model_params |-> "ets_params"]
    ELSE Raised("UnsupportedModel", 0))))

(***************************************************************************)
(* The tables.  Each is the sequence of its committed rows, in insertion   *)
(* order.  A statement INSERT ... ON CONFLICT (date, metric) DO UPDATE     *)
(* updates the row that has the key, or appends a row when there is none.  *)
(***************************************************************************)
DictGet(d, key, default) == IF key \in DOMAIN d THEN d[key] ELSE default

KeyIndexes(tbl, date, metric) ==
    {i \in 1..Len(tbl) : tbl[i].date = date /\ tbl[i].metric_name = metric}

(* a plain INSERT, without the ON CONFLICT clause and the unique index *)
AppendForecast(tbl, f, metric, model_name, model_version, model_run_id, now) ==
    Append(tbl, [date |-> f.date,
                 metric_name |-> metric,
                 predicted_value |-> f.predicted,
                 lower_bound |-> f.lower_bound,
                 upper_bound |-> f.upper_bound,
                 model_run_id |-> model_run_id,
                 model_name |-> model_name,
                 model_version |-> model_version,
                 updated_at |-> now])

(* an upsert whose DO UPDATE leaves out the model name and the run id *)
UpsertForecastValuesOnly(tbl, f, metric, model_name, model_version, model_run_id, now) ==
    IF KeyIndexes(tbl, f.date, metric) # {}
    THEN [i \in 1..Len(tbl) |->
             IF i \in KeyIndexes(tbl, f.date, metric)
             THEN [tbl[i] EXCEPT !.predicted_value = f.predicted,
                                 !.lower_bound = f.lower_bound,
                                 !.upper_bound = f.upper_bound,
                                 !.updated_at = now]
             ELSE tbl[i]]
    ELSE AppendForecast(tbl, f, metric, model_name, model_version,
                        model_run_id, now)

(* the statement of save_forecasts_to_db, for one forecast f *)
UpsertForecast(tbl, f, metric, model_name, model_version, model_run_id, now) ==
    IF KeyIndexes(tbl, f.date, metric) # {}
    THEN [i \in 1..Len(tbl) |->
             IF i \in KeyIndexes(tbl, f.date, metric)
             THEN [tbl[i] EXCEPT !.predicted_value = f.predicted,
                                 !.lower_bound = f.lower_bound,
                                 !.upper_bound = f.upper_bound,
                                 !.model_run_id = model_run_id,
                                 !.model_name = model_name,
                                 !.model_version = model_version,
                                 !.updated_at = now]
             ELSE tbl[i]]
    ELSE Append(tbl, [date |-> f.date,
                      metric_name |-> metric,
                      predicted_value |-> f.predicted,
                      lower_bound |-> f.lower_bound,
                      upper_bound |-> f.upper_bound,
                      model_run_id |-> model_run_id,
                      model_name |-> model_name,
                      model_version |-> model_version,
                      updated_at |-> now])

(* an upsert that replaces the whole row: delete, then insert *)
ReplaceAnomaly(tbl, a, metric, run_id, now) ==
    LET row == [date |-> a.date,
                metric_name |-> metric,
                actual_value |-> a.actual,
                expected_value |-> a.expected,
                deviation_pct |-> DictGet(a, "deviation_pct", 0),
                z_score |-> DictGet(a, "z_score", 0),
                anomaly_type |-> a.anomaly_type,
                severity |-> a.severity,
                is_weekend |-> DictGet(a, "is_weekend", FALSE),
                day_of_week |-> DictGet(a, "day_of_week", 0),
                business_interpretation |->
                    DictGet(a, "business_interpretation", None),
                recommended_action |-> DictGet(a, "recommended_action", None),
                model_run_id |-> run_id,
                acknowledged |-> FALSE,
                acknowledged_by |-> None,
                acknowledged_at |-> None,
                updated_at |-> now]
    IN IF KeyIndexes(tbl, a.date, metric) # {}
       THEN [i \in 1..Len(tbl) |->
                IF i \in KeyIndexes(tbl, a.date, metric) THEN row ELSE tbl[i]]
       ELSE Append(tbl, row)

(* the statement of save_anomalies_to_db, for one anomaly a; a column the  *)
(* statement does not name takes its default (acknowledged FALSE, the      *)
(* acknowledger and its time NULL).                                        *)
UpsertAnomaly(tbl, a, metric, run_id, now) ==
    IF KeyIndexes(tbl, a.date, metric) # {}
    THEN [i \in 1..Len(tbl) |->
             IF i \in KeyIndexes(tbl, a.date, metric)
             THEN [tbl[i] EXCEPT !.actual_value = a.actual,
                                 !.expected_value = a.expected,
                                 !.deviation_pct = DictGet(a, "deviation_pct", 0),
                                 !.z_score = DictGet(a, "z_score", 0),
                                 !.anomaly_type = a.anomaly_type,
                                 !.severity = a.severity,
                                 !.business_interpretation =
                                     DictGet(a, "business_interpretation", None),
                                 !.recommended_action =
                                     DictGet(a, "recommended_action", None),
                                 !.model_run_id = run_id,
                                 !.updated_at = now]
             ELSE tbl[i]]
    ELSE Append(tbl, [date |-> a.date,
                      metric_name |-> metric,
                      actual_value |-> a.actual,
                      expected_value |-> a.expected,
                      deviation_pct |-> DictGet(a, "deviation_pct", 0),
                      z_score |-> DictGet(a, "z_score", 0),
                      anomaly_type |-> a.anomaly_type,
                      severity |-> a.severity,
                      is_weekend |-> DictGet(a, "is_weekend", FALSE),
                      day_of_week |-> DictGet(a, "day_of_week", 0),
                      business_interpretation |->
                          DictGet(a, "business_interpretation", None),
                      recommended_action |-> DictGet(a, "recommended_action", None),
                      model_run_id |-> run_id,
                      acknowledged |-> FALSE,
                      acknowledged_by |-> None,
                      acknowledged_at |-> None,
                      updated_at |-> now])

(* the UPDATE of acknowledge_anomaly *)
AcknowledgeRows(tbl, date, metric, user, now) ==
    [i \in 1..Len(tbl) |->
        IF i \in KeyIndexes(tbl, date, metric)
        THEN [tbl[i] EXCEPT !.acknowledged = TRUE,
                            !.acknowledged_by = Some(user),
                            !.acknowledged_at = Some(now)]
        ELSE tbl[i]]

(* lines 457-460 and safe_round(improvement): None unless both scores are  *)
(* given and the baseline is positive; in units of 1e-5, rounded to 4      *)
(* decimals.                                                               *)
ImprovementVsBaseline(mape, baseline_mape) ==
    IF baseline_mape # None /\ mape # None /\ baseline_mape[1] > 0
    THEN Some(RoundLastDigit(
             DivDigits((baseline_mape[1] - mape[1]) * 100, baseline_mape[1], 5)))
    ELSE None

(* safe_round(value, 4) of a score given in thousandths: it has no fourth  *)
(* decimal to round.                                                       *)
safe_round(value) == IF value # None THEN Some(value[1]) ELSE None

(* the row save_model_run inserts; a holds its arguments *)
ModelRunRow(a, run_id, now) ==
    [run_id |-> run_id,
     model_type |-> a.model_type,
     target_metric |-> a.metric,
     train_start_date |-> a.train_start,
     train_end_date |-> a.train_end,
     train_samples |-> a.train_samples,
     parameters |-> a.params,
     mape |-> safe_round(a.mape),
     smape |-> safe_round(a.smape),
     rmse |-> safe_round(a.rmse),
     mae |-> safe_round(a.mae),
     baseline_mape |-> safe_round(a.baseline_mape),
     baseline_rmse |-> safe_round(a.baseline_rmse),
     improvement_vs_baseline_pct |-> ImprovementVsBaseline(a.mape, a.baseline_mape),
     model_version |-> SERVICE_VERSION,
     code_version |-> CODE_VERSION,
     status |-> "completed",
     run_timestamp |-> now]

(* a ledger that keeps only the latest run in its last row *)
ReplaceModelRun(tbl, row) ==
    IF tbl = <<>> THEN <<row>> ELSE [tbl EXCEPT ![Len(tbl)] = row]

(* INSERT INTO ml_model_runs ... RETURNING run_id *)
InsertModelRun(tbl, row) == Append(tbl, row)

(***************************************************************************)
(* detect_anomalies_enhanced.  The columns of one row are computed from    *)
(* st = [expected, std, if_anomaly]; the statistics themselves follow      *)
(* below.  z_score and deviation_pct are in thousandths.                   *)
(***************************************************************************)
ANOMALY_MIN_DAYS == 14

(* contamination: float = 0.1, in thousandths *)
DEFAULT_CONTAMINATION == 100

(* data.index.dayofweek, Monday = 0: day number 0 is taken to be a Monday *)
DayOfWeek(ds) == ds % 7

IsWeekend(ds) == DayOfWeek(ds) \in {5, 6}

(* .replace(0, 1) *)
ReplaceZero(x) == IF x = 0 THEN 1000 ELSE x

ZScore(y, expected, std) == DivDigits(y - expected, ReplaceZero(std), 3)

DeviationPct(y, expected) ==
    Round2(DivDigits((y - expected) * 100, ReplaceZero(expected), 3))

(* a combination that needs both signals *)
IsAnomalyBoth(if_anomaly, z_score) == if_anomaly /\ Abs(z_score) > 2500

IsAnomaly(if_anomaly, z_score) == if_anomaly \/ Abs(z_score) > 2500

AnomalyType(is_anomaly, y, expected) ==
    IF is_anomaly /\ y > expected THEN Some("spike")
    ELSE IF is_anomaly /\ y < expected THEN Some("drop")
    ELSE None

(* tiers that start at their boundary value *)
get_severity_inclusive(z_score, deviation_pct) ==
    LET z == Abs(z_score)
        dev == Abs(deviation_pct)
    IN IF z >= 4000 \/ dev >= 50000 THEN "critical"
       ELSE IF z >= 3000 \/ dev >= 30000 THEN "high"
       ELSE IF z >= 2000 \/ dev >= 15000 THEN "medium"
       ELSE "low"

get_severity(z_score, deviation_pct) ==
    LET z == Abs(z_score)
        dev == Abs(deviation_pct)
    IN IF z > 4000 \/ dev > 50000 THEN "critical"
       ELSE IF z > 3000 \/ dev > 30000 THEN "high"
       ELSE IF z > 2000 \/ dev > 15000 THEN "medium"
       ELSE "low"

get_interpretation(is_anomaly, anomaly_type, is_weekend) ==
    IF ~is_anomaly THEN None
    ELSE IF anomaly_type = Some("spike")
    THEN IF is_weekend THEN Some("Unusual weekend spike")
         ELSE Some("Unexpected high")
    ELSE IF is_weekend THEN Some("Weekend drop")
         ELSE Some("Weekday underperformance")

get_action(is_anomaly, severity, anomaly_type) ==
    IF ~is_anomaly THEN None
    ELSE IF severity \in {"critical", "high"}
    THEN IF anomaly_type = Some("drop") THEN Some("URGENT")
         ELSE Some("Review")
    ELSE Some("Monitor")

DetectorRow(ds, y, st) ==
    LET z == ZScore(y, st.expected, st.std)
        dev == DeviationPct(y, st.expected)
        flag == IsAnomaly(st.if_anomaly, z)
        type == AnomalyType(flag, y, st.expected)
        sev == get_severity(z, dev)
    IN [ds |-> ds,
        y |-> y,
        day_of_week |-> DayOfWeek(ds),
        is_weekend |-> IsWeekend(ds),
        expected |-> st.expected,
        std |-> st.std,
        z_score |-> z,
        deviation_pct |-> dev,
        if_anomaly |-> st.if_anomaly,
        is_anomaly |-> flag,
        anomaly_type |-> type,
        severity |-> sev,
        business_interpretation |-> get_interpretation(flag, type, IsWeekend(ds)),
        recommended_action |-> get_action(flag, sev, type)]

(* the values of the metric column *)
Values(data) == [k \in 1..Len(data) |-> data[k].y[1]]

MaxAbs(s) ==
    CHOOSE m \in {0} \cup {Abs(s[k]) : k \in 1..Len(s)} :
        \A k \in 1..Len(s) : Abs(s[k]) <= m

(* the power of ten that brings deviations of the given size under 5000,   *)
(* so that the sum of their squares stays within 32 bits                   *)
RECURSIVE StdScale(_)
StdScale(maxd) == IF maxd <= 5000 THEN 1 ELSE 10 * StdScale(maxd \div 10)

(* Series.std(), the sample deviation (ddof = 1), for two or more values *)
SampleStd(xs) ==
    Bind(SeriesMean(xs), LAMBDA m :
    Bind([k \in 1..Len(xs) |-> xs[k] - m] \o <<>>, LAMBDA d :
    Bind(StdScale(MaxAbs(d)), LAMBDA u :
        u * ISqrt(SumSeq([k \in 1..Len(d) |-> (d[k] \div u) * (d[k] \div u)])
                  \div (Len(xs) - 1)))))

ROLLING_WINDOW == 4

ROLLING_MIN_PERIODS == 2

(* the values of the rows of row k's day type (weekend or weekday) *)
GroupValues(data, k) ==
    Values(SelectSeq(data, LAMBDA r : IsWeekend(r.ds) = IsWeekend(data[k].ds)))

(* rolling(window=4): the values of row k and of the rows of its day type  *)
(* before it, the last four of them                                        *)
RollingWindow(data, k) ==
    Bind(Values(SelectSeq(SubSeq(data, 1, k),
                          LAMBDA r : IsWeekend(r.ds) = IsWeekend(data[k].ds))),
         LAMBDA g : SubSeq(g, Max(1, Len(g) - ROLLING_WINDOW + 1), Len(g)))

(* statistics without the fall-back to the day type: a day whose window    *)
(* is too short has expected 0                                             *)
DayStatsNoBaseline(data, k) ==
    Bind(RollingWindow(data, k), LAMBDA w :
        IF Len(w) >= ROLLING_MIN_PERIODS
        THEN [expected |-> SeriesMean(w), std |-> SampleStd(w)]
        ELSE [expected |-> 0, std |-> SampleStd(Values(data))])

(* lines 296-310: expected is the rolling mean, or the mean of the day     *)
(* type where the window has fewer than two values; std is the rolling     *)
(* deviation, or the deviation of the whole column there.                  *)
DayStats(data, k) ==
    Bind(RollingWindow(data, k), LAMBDA w :
        IF Len(w) >= ROLLING_MIN_PERIODS
        THEN [expected |-> SeriesMean(w), std |-> SampleStd(w)]
        ELSE [expected |-> SeriesMean(GroupValues(data, k)),
              std |-> SampleStd(Values(data))])

(***************************************************************************)
(* IsolationForest(contamination, random_state=42).fit_predict(residuals)  *)
(* is outside the program.  Of the library this much is used: it rejects a *)
(* contamination outside (0, 0.5]; the score of a sample is a function of  *)
(* its value, and a sample is flagged when its score is below the          *)
(* contamination quantile of all scores, so that equal residuals are       *)
(* flagged alike and none is flagged when all residuals are equal.  Which  *)
(* values score lowest is the input det: none ("quiet"), the value of the  *)
(* last row ("spike"), or of the last two rows ("both").                   *)
(***************************************************************************)
DetectorInputs == {"quiet", "spike", "both"}

IsolationForestRejects(contamination) == contamination <= 0 \/ contamination > 500

LowestScored(det, n) ==
    IF det = "spike" THEN {n}
    ELSE IF det = "both" THEN {n - 1, n} \cap (1..n)
    ELSE {}

IsolationForestFlags(det, residuals) ==
    [k \in 1..Len(residuals) |->
        /\ \E j \in 1..Len(residuals) : residuals[j] # residuals[k]
        /\ \E j \in LowestScored(det, Len(residuals)) : residuals[j] = residuals[k]]

(* the frame data with all its computed columns, before the final filter *)
DetectorRows(data, det) ==
    Bind([k \in 1..Len(data) |-> DayStats(data, k)] \o <<>>, LAMBDA stats :
    Bind(IsolationForestFlags(det,
             [k \in 1..Len(data) |-> data[k].y[1] - stats[k].expected]) \o <<>>,
         LAMBDA flags :
        [k \in 1..Len(data) |->
            DetectorRow(data[k].ds, data[k].y[1],
                        [expected |-> stats[k].expected, std |-> stats[k].std,
                         if_anomaly |-> flags[k]])]))

(* a detector without the check of the number of observations *)
DetectUnguarded(df, contamination, det) ==
    Bind(DropNa(df), LAMBDA data :
        IF IsolationForestRejects(contamination)
        THEN Raised("InvalidParameter", 0)
        ELSE [ok |-> TRUE,
              rows |-> SelectSeq(DetectorRows(data, det), LAMBDA r : r.is_anomaly)])

(* contamination is in thousandths *)
detect_anomalies_enhanced(df, contamination, det) ==
    Bind(DropNa(df), LAMBDA data :
        IF Len(data) < ANOMALY_MIN_DAYS THEN [ok |-> TRUE, rows |-> <<>>]
        ELSE IF IsolationForestRejects(contamination)
        THEN Raised("InvalidParameter", 0)
        ELSE [ok |-> TRUE,
              rows |-> SelectSeq(DetectorRows(data, det), LAMBDA r : r.is_anomaly)])

(* lines 787-796 and 876-885: the dicts the endpoints build from the       *)
(* detector's rows                                                         *)
AnomalyDicts(anomaly_df) ==
    [k \in 1..Len(anomaly_df) |->
        [date |-> anomaly_df[k].ds,
         actual |-> Round2(anomaly_df[k].y),
         expected |-> Round2(anomaly_df[k].expected),
         deviation_pct |-> anomaly_df[k].deviation_pct,
         anomaly_type |-> anomaly_df[k].anomaly_type,
         severity |-> anomaly_df[k].severity]]

(***************************************************************************)
(* The endpoints.  A handler reads the KPI frame once and is then a fixed  *)
(* sequence of database jobs that ends in its response; that sequence, the *)
(* handler's plan, is computed here as the code computes it, cut at the    *)
(* first exception.  env holds what the handler reads from outside: the    *)
(* frame df, the library outcome per candidate backtest (libs, and         *)
(* orders_libs on the total_orders column), of the final fit (flib) and    *)
(* the detector input (det).                                               *)
(***************************************************************************)
Respond(status, detail, body) ==
    [kind |-> "respond", status |-> status, detail |-> detail, body |-> body]

RunJob(a) == [kind |-> "run", args |-> a]

ForecastsJob(records, metric, model_name, model_version) ==
    [kind |-> "forecasts", records |-> records, metric |-> metric,
     model_name |-> model_name, model_version |-> model_version]

(* with_run: the call passes the id the preceding save_model_run returned *)
AnomaliesJob(records, metric, with_run) ==
    [kind |-> "anomalies", records |-> records, metric |-> metric,
     with_run |-> with_run]

AckJob(date, metric, user) ==
    [kind |-> "ack", date |-> date, metric |-> metric, user |-> user]

(* a handler that falls back to the first candidate, with an empty        *)
(* bundle, when no candidate can be backtested                             *)
BacktestChoiceFallback(df, metric, model_choice, test_days, libs) ==
    Bind(backtest_model(df, metric,
                        IF model_choice = DEFAULT_FORECAST_MODEL
                        THEN FORECAST_MODELS[1] ELSE model_choice,
                        test_days, "exact"),
         LAMBDA r :
            IF r.ok
            THEN [ok |-> TRUE, model |-> r.model_type, bundle |-> r]
            ELSE [ok |-> TRUE, model |-> FORECAST_MODELS[1],
                  bundle |-> [mape |-> 0, smape |-> 0, rmse |-> 0, mae |-> 0,
                              baseline_mape |-> 0, baseline_rmse |-> 0]])

(* lines 722-726 and 998-1002: the model and its backtest bundle *)
BacktestChoice(df, metric, model_choice, test_days, libs) ==
    IF model_choice = DEFAULT_FORECAST_MODEL
    THEN Bind(select_best_model(df, metric, test_days, libs), LAMBDA sel :
            IF sel.ok
            THEN [ok |-> TRUE, model |-> sel.best,
                  bundle |-> sel.results[CHOOSE i \in 1..Len(sel.results) :
                      /\ sel.results[i].model_type = sel.best
                      /\ \A j \in 1..(i - 1) : sel.results[j].model_type # sel.best]]
            ELSE sel)
    ELSE Bind(backtest_model(df, metric, model_choice, test_days,
                             libs[model_choice]), LAMBDA r :
            IF r.ok THEN [ok |-> TRUE, model |-> model_choice, bundle |-> r]
            ELSE r)

ForecastModelType(model) ==
    IF model = "prophet" THEN "forecast_prophet" ELSE "forecast_ets"

(* the arguments of the save_model_run call of a forecast *)
(* a ledger row written without the scores of the backtest *)
ForecastRunArgsUnscored(model, metric, prepared, model_params, bt) ==
    [model_type |-> ForecastModelType(model),
     metric |-> metric,
     train_start |-> prepared[1].ds,
     train_end |-> prepared[Len(prepared)].ds,
     train_samples |-> Len(prepared),
     params |-> model_params,
     mape |-> None,
     smape |-> None,
     rmse |-> None,
     mae |-> None,
     baseline_mape |-> None,
     baseline_rmse |-> None]

ForecastRunArgs(model, metric, prepared, model_params, bt) ==
    [model_type |-> ForecastModelType(model),
     metric |-> metric,
     train_start |-> prepared[1].ds,
     train_end |-> prepared[Len(prepared)].ds,
     train_samples |-> Len(prepared),
     params |-> model_params,
     mape |-> Some(bt.mape),
     smape |-> Some(bt.smape),
     rmse |-> Some(bt.rmse),
     mae |-> Some(bt.mae),
     baseline_mape |-> Some(bt.baseline_mape),
     baseline_rmse |-> Some(bt.baseline_rmse)]

(* the arguments of the save_model_run call of an anomaly detection *)
AnomalyRunArgs(metric, df) ==
    [model_type |-> "anomaly_isolation_forest",
     metric |-> metric,
     train_start |-> MinDate(df),
     train_end |-> MaxDate(df),
     train_samples |-> Len(df),
     params |-> "contamination_0.1",
     mape |-> None, smape |-> None, rmse |-> None, mae |-> None,
     baseline_mape |-> None, baseline_rmse |-> None]

(* the library outcomes of the candidates on the column of a metric *)
EnvLibs(env, metric) ==
    IF metric = "total_orders" THEN env.orders_libs ELSE env.libs

(* POST /forecast.  An HTTPException raised inside the try block is caught *)
(* by its "except Exception" and leaves as a 500.                          *)
generate_forecast(req, env) ==
    IF req.metric \notin VALID_METRICS
    THEN <<Respond(400, "InvalidMetric", None)>>
    ELSE IF env.df = <<>> THEN <<Respond(500, "NoData", None)>>
    ELSE
    Bind(normalize_model_name(req.model), LAMBDA norm :
    IF ~norm.ok THEN <<Respond(500, "InvalidModel", None)>>
    ELSE
    Bind(BacktestChoice(env.df, req.metric, norm.model, DEFAULT_TEST_DAYS,
                        EnvLibs(env, req.metric)), LAMBDA bc :
    IF ~bc.ok THEN <<Respond(500, bc.error, None)>>
    ELSE
    Bind(forecast_with_model(env.df, req.metric, bc.model, req.forecast_days,
                             env.flib), LAMBDA fc :
    IF ~fc.ok THEN <<Respond(500, fc.error, None)>>
    ELSE <<RunJob(ForecastRunArgs(bc.model, req.metric,
                      prepare_metric_series(env.df), fc.model_params,
                      bc.bundle)),
           ForecastsJob(fc.records, req.metric, ModelDisplayName(bc.model),
                        SERVICE_VERSION),
           Respond(200, "forecast", fc.records)>>)))

ANOMALY_METRICS ==
    {"total_revenue", "total_orders", "unique_customers", "avg_order_value"}

(* df[df['ds'] >= df['ds'].max() - lookback_days] *)
Lookback(df, lookback_days) ==
    SelectSeq(df, LAMBDA r : r.ds >= MaxDate(df) - lookback_days)

(* POST /anomalies *)
detect_anomalies_endpoint(req, env) ==
    IF req.metric \notin ANOMALY_METRICS
    THEN <<Respond(400, "InvalidMetric", None)>>
    ELSE IF env.df = <<>> THEN <<Respond(500, "NoData", None)>>
    ELSE
    Bind(detect_anomalies_enhanced(Lookback(env.df, req.lookback_days),
                                   req.contamination, env.det), LAMBDA found :
    IF ~found.ok THEN <<Respond(500, found.error, None)>>
    ELSE
    Bind(AnomalyDicts(found.rows), LAMBDA anomalies :
    IF anomalies # <<>>
    THEN <<AnomaliesJob(anomalies, req.metric, FALSE),
           Respond(200, "anomalies", anomalies)>>
    ELSE <<Respond(200, "anomalies", anomalies)>>))

TRAIN_METRICS == <<"total_revenue", "total_orders">>

(* forecast_horizons = [14, 365], scaled down to 1 and 2 days: the long    *)
(* horizon covers and overwrites the dates of the short one.               *)
forecast_horizons == <<1, 2>>

HorizonForecasts(df, metric, best_model, flib) ==
    [h \in 1..Len(forecast_horizons) |->
        forecast_with_model(df, metric, best_model, forecast_horizons[h], flib)]

(* the jobs of one metric in train_all_models, or the 500 that ends it *)
TrainMetric(metric, env) ==
    Bind(BacktestChoice(env.df, metric, DEFAULT_FORECAST_MODEL,
                        DEFAULT_TEST_DAYS, EnvLibs(env, metric)), LAMBDA sel :
    IF ~sel.ok THEN <<Respond(500, sel.error, None)>>
    ELSE
    Bind(HorizonForecasts(env.df, metric, sel.model, env.flib), LAMBDA fcs :
    Bind({h \in 1..Len(fcs) : ~fcs[h].ok}, LAMBDA failed :
    IF failed # {}
    THEN <<Respond(500, fcs[CHOOSE h \in failed : \A g \in failed : h <= g].error,
                   None)>>
    ELSE
    Bind(AnomalyDicts(detect_anomalies_enhanced(
             env.df, DEFAULT_CONTAMINATION, env.det).rows), LAMBDA anomalies :
        <<RunJob(ForecastRunArgs(sel.model, metric,
                     prepare_metric_series(env.df),
                     fcs[Len(fcs)].model_params, sel.bundle))>>
        \o [h \in 1..Len(fcs) |->
               ForecastsJob(fcs[h].records, metric, ModelDisplayName(sel.model),
                            SERVICE_VERSION)]
        \o (IF anomalies # <<>>
            THEN <<RunJob(AnomalyRunArgs(metric, env.df)),
                   AnomaliesJob(anomalies, metric, TRUE)>>
            ELSE <<>>)))))

RECURSIVE TrainLoop(_, _)
TrainLoop(i, env) ==
    IF i > Len(TRAIN_METRICS) THEN <<Respond(200, "success", None)>>
    ELSE Bind(TrainMetric(TRAIN_METRICS[i], env), LAMBDA jobs :
            IF jobs[Len(jobs)].kind = "respond" THEN jobs
            ELSE jobs \o TrainLoop(i + 1, env))

(* POST /train *)
train_all_models(env) ==
    IF env.df = <<>> THEN <<Respond(500, "NoData", None)>>
    ELSE TrainLoop(1, env)

BACKTEST_METRICS == {"total_revenue", "total_orders"}

(* POST /backtest/{metric} *)
run_backtest(req, env) ==
    IF req.metric \notin BACKTEST_METRICS
    THEN <<Respond(400, "InvalidMetric", None)>>
    ELSE IF Len(env.df) < req.test_days + BACKTEST_MIN_EXTRA
    THEN <<Respond(500, "InsufficientData", None)>>
    ELSE
    Bind(normalize_model_name(req.model), LAMBDA norm :
    IF ~norm.ok THEN <<Respond(500, "InvalidModel", None)>>
    ELSE
    Bind(BacktestChoice(env.df, req.metric, norm.model, req.test_days,
                        EnvLibs(env, req.metric)), LAMBDA bc :
    IF ~bc.ok THEN <<Respond(500, bc.error, None)>>
    ELSE <<Respond(200, "backtest",
                   [metric |-> bc.bundle.metric,
                    model_type |-> bc.bundle.model_type,
                    mape |-> bc.bundle.mape,
                    smape |-> bc.bundle.smape,
                    rmse |-> bc.bundle.rmse,
                    mae |-> bc.bundle.mae,
                    baseline_mape |-> bc.bundle.baseline_mape,
                    improvement_pct |-> bc.bundle.improvement_pct,
                    test_samples |-> bc.bundle.test_samples])>>))

(* POST /acknowledge/{anomaly_date}/{metric} *)
acknowledge_anomaly(req) ==
    <<AckJob(req.date, req.metric, req.user),
      Respond(200, "acknowledged",
              [status |-> "acknowledged", date |-> req.date, metric |-> req.metric])>>

(***************************************************************************)
(* Inputs: frames, environments and requests                               *)
(***************************************************************************)
FrameShapes == {"flat", "weekly", "ramp", "gappy"}

(* the rows of a frame of the given shape over days 1..n: "gappy" has no   *)
(* row on an even day before the last, and a NULL cell on day 3.           *)
FrameRow(shape, d) ==
    [ds |-> d,
     y |-> CASE shape = "flat" -> Some(5000)
             [] shape = "weekly" -> Some(1000 * (1 + (d % 7)))
             [] shape = "ramp" -> Some(1000 + 100 * d)
             [] OTHER -> IF d = 3 THEN None ELSE Some(3000)]

Frame(shape, n) ==
    SelectSeq([d \in 1..n |-> FrameRow(shape, d)],
              LAMBDA r : shape # "gappy" \/ r.ds % 2 = 1 \/ r.ds = n)

LibsOf(prophet, ets) == [m \in {"prophet", "ets"} |-> IF m = "prophet" THEN prophet ELSE ets]

(* what the service may find outside itself when a request arrives *)
Envs ==
    {[df |-> Frame("ramp", 44), libs |-> LibsOf("flat", "neg"),
      orders_libs |-> LibsOf("raise", "raise"), flib |-> "neg", det |-> "spike"],
     [df |-> Frame("weekly", 44), libs |-> LibsOf("raise", "exact"),
      orders_libs |-> LibsOf("raise", "exact"), flib |-> "flat", det |-> "both"],
     [df |-> Frame("flat", 44), libs |-> LibsOf("raise", "raise"),
      orders_libs |-> LibsOf("raise", "raise"), flib |-> "flat", det |-> "quiet"],
     [df |-> Frame("flat", 20), libs |-> LibsOf("flat", "flat"),
      orders_libs |-> LibsOf("flat", "flat"), flib |-> "raise", det |-> "both"],
     [df |-> <<>>, libs |-> LibsOf("flat", "flat"),
      orders_libs |-> LibsOf("flat", "flat"), flib |-> "flat", det |-> "quiet"]}

ForecastRequests ==
    {[metric |-> "total_revenue", forecast_days |-> 2, model |-> ""],
     [metric |-> "total_revenue", forecast_days |-> 1, model |-> " ETS"],
     [metric |-> "total_revenue", forecast_days |-> 1, model |-> "arima"],
     [metric |-> "page_views", forecast_days |-> 1, model |-> "auto"]}

AnomalyRequests ==
    {[metric |-> "total_revenue", lookback_days |-> 30,
      contamination |-> DEFAULT_CONTAMINATION],
     [metric |-> "total_revenue", lookback_days |-> 7,
      contamination |-> DEFAULT_CONTAMINATION],
     [metric |-> "total_revenue", lookback_days |-> 30, contamination |-> 900],
     [metric |-> "total_items_sold", lookback_days |-> 30,
      contamination |-> DEFAULT_CONTAMINATION]}

BacktestRequests ==
    {[metric |-> "total_revenue", test_days |-> 14, model |-> "auto"],
     [metric |-> "total_orders", test_days |-> 15, model |-> "prophet"],
     [metric |-> "total_revenue", test_days |-> 14, model |-> "arima"],
     [metric |-> "avg_order_value", test_days |-> 14, model |-> "auto"]}

AcknowledgeRequests ==
    {[date |-> 44, metric |-> "total_revenue", user |-> "analyst"],
     [date |-> 44, metric |-> "total_revenue", user |-> "ops"],
     [date |-> 43, metric |-> "total_orders", user |-> "analyst"]}

(* the metrics of a frame on which every candidate's backtest throws *)
Unusable(env) ==
    {m \in {"total_revenue", "total_orders"} :
        ~select_best_model(env.df, m, DEFAULT_TEST_DAYS, EnvLibs(env, m)).ok}

(* the rows detect_anomalies_enhanced returns to the handler of a request: *)
(* lines 785 and 875                                                       *)
Detected(endpoint, req, env) ==
    IF env.df = <<>> \/ endpoint \notin {"anomalies", "train"} THEN <<>>
    ELSE Bind(IF endpoint = "anomalies"
              THEN detect_anomalies_enhanced(Lookback(env.df, req.lookback_days),
                                             req.contamination, env.det)
              ELSE detect_anomalies_enhanced(env.df, DEFAULT_CONTAMINATION,
                                             env.det),
              LAMBDA found : IF found.ok THEN found.rows ELSE <<>>)

(* A request in progress: its endpoint, its body, what the handler finds   *)
(* outside (whether the KPI frame has rows, the metrics no candidate can   *)
(* be backtested on, the rows the detector returns) and the plan that      *)
(* follows from them.                                                      *)
Call(endpoint, req, env, jobs) ==
    [endpoint |-> endpoint, req |-> req, has_data |-> env.df # <<>>,
     unusable |-> Unusable(env), detected |-> Detected(endpoint, req, env),
     jobs |-> jobs]

NoRequest == [metric |-> "", model |-> ""]

(* The calls a request can be: each set is computed once. *)
ForecastPlans ==
    {Call("forecast", r, e, generate_forecast(r, e)) :
        r \in ForecastRequests, e \in Envs}

AnomalyPlans ==
    {Call("anomalies", r, e, detect_anomalies_endpoint(r, e)) :
        r \in AnomalyRequests, e \in Envs}

TrainPlans == {Call("train", NoRequest, e, train_all_models(e)) : e \in Envs}

BacktestPlans ==
    {Call("backtest", r, e, run_backtest(r, e)) :
        r \in BacktestRequests, e \in Envs}

AcknowledgePlans ==
    {[endpoint |-> "acknowledge", req |-> r, has_data |-> TRUE, unusable |-> {},
      detected |-> <<>>, jobs |-> acknowledge_anomaly(r)] :
        r \in AcknowledgeRequests}

(***************************************************************************)
(* State                                                                   *)
(***************************************************************************)
VARIABLES
    forecasts,   \* ml_forecast_daily: the committed rows
    anomalies,   \* ml_anomalies_daily: the committed rows
    runs,        \* ml_model_runs: the committed rows
    run_seq,     \* the last value of the run_id sequence
    clock,       \* CURRENT_TIMESTAMP
    nreq,        \* requests and calls received so far
    plan,        \* per caller: the jobs its handler has still to do
    idx,         \* per caller: statements executed in the open transaction
    cur_run,     \* per caller: the run id its next save passes (or None)
    cursor,      \* per caller: the row count of its last UPDATE
    resp,        \* per caller: the last response
    last_f,      \* per forecast key, the arguments of the last committed upsert
    last_a,      \* per anomaly key, the arguments of the last committed upsert
    args,        \* the request in progress, or the arguments of a function
                 \* called on its own
    result,      \* what that call returned
    called,      \* which function was called, "no" before the call
    csv_rows,    \* the number of data rows of the CSV file
    state_file,  \* the state file: absent, truncated, or holding a line number
    raw_transactions, \* raw_transactions: the committed rows, as CSV row numbers
    etl_run_log, \* etl_run_log: the committed rows
    streamer,    \* the streamer process: its position and its local variables
    crashes      \* the number of times the streamer process has died

vars ==
    <<forecasts, anomalies, runs, run_seq, clock, nreq, plan, idx, cur_run,
      cursor, resp, last_f, last_a, args, result, called,
      csv_rows, state_file, raw_transactions, etl_run_log, streamer, crashes>>

streaming == <<csv_rows, state_file, raw_transactions, etl_run_log, streamer, crashes>>

tables == <<forecasts, anomalies, runs, run_seq>>

harness == <<args, result, called>>

NumCallers == 2

MaxRequests == 3

Procs == 1..NumCallers

NoResponse == [status |-> 0, detail |-> "", body |-> None]

(* the streamer process when it is not running: it has no local variables *)
Stopped == [pc |-> "stopped"]

(* the state file before the first save_state: it does not exist *)
NoStateFile == [content |-> "absent", line_number |-> 0]

InitService ==
    /\ forecasts = <<>>
    /\ anomalies = <<>>
    /\ runs = <<>>
    /\ run_seq = 0
    /\ clock = 0
    /\ nreq = 0
    /\ plan = [p \in Procs |-> <<>>]
    /\ idx = [p \in Procs |-> 0]
    /\ cur_run = [p \in Procs |-> None]
    /\ cursor = [p \in Procs |-> None]
    /\ resp = [p \in Procs |-> NoResponse]
    /\ last_f = {}
    /\ last_a = {}
    /\ csv_rows = 0
    /\ state_file = NoStateFile
    /\ raw_transactions = <<>>
    /\ etl_run_log = <<>>
    /\ streamer = Stopped
    /\ crashes = 0

Init ==
    /\ InitService
    /\ args = None
    /\ result = None
    /\ called = "no"

(***************************************************************************)
(* Transactions.  A caller's open transaction holds the row lock of every  *)
(* key it has written; its writes become visible at its commit.  A         *)
(* statement on a key another open transaction holds waits for that        *)
(* transaction to end; PostgreSQL aborts a statement whose wait closes a   *)
(* cycle of waits.                                                         *)
(***************************************************************************)
Job(p) == Head(plan[p])

InJob(p, kind) == plan[p] # <<>> /\ Job(p).kind = kind

Table(kind) == IF kind = "forecasts" THEN "f" ELSE "a"

(* the keys whose rows p's open transaction has written *)
Holds(p) ==
    IF InJob(p, "forecasts") \/ InJob(p, "anomalies")
    THEN {<<Table(Job(p).kind), Job(p).records[k].date, Job(p).metric>> :
             k \in 1..idx[p]}
    ELSE {}

(* the key p's next statement writes *)
Wants(p) ==
    IF (InJob(p, "forecasts") \/ InJob(p, "anomalies")) /\ idx[p] < Len(Job(p).records)
    THEN {<<Table(Job(p).kind), Job(p).records[idx[p] + 1].date, Job(p).metric>>}
    ELSE IF InJob(p, "ack") /\ KeyIndexes(anomalies, Job(p).date, Job(p).metric) # {}
    THEN {<<"a", Job(p).date, Job(p).metric>>}
    ELSE {}

Blockers(p) == {q \in Procs \ {p} : Wants(p) \cap Holds(q) # {}}

RECURSIVE WaitClosure(_, _)
WaitClosure(S, n) ==
    IF n = 0 THEN S
    ELSE WaitClosure(S \cup UNION {Blockers(q) : q \in S}, n - 1)

Deadlocked(p) == p \in WaitClosure(Blockers(p), NumCallers)

(* the table after the first k statements of a save_forecasts_to_db call *)
RECURSIVE ApplyForecasts(_, _, _, _, _)
ApplyForecasts(tbl, job, k, run_id, now) ==
    IF k = 0 THEN tbl
    ELSE UpsertForecast(ApplyForecasts(tbl, job, k - 1, run_id, now),
                        job.records[k], job.metric, job.model_name,
                        job.model_version, run_id, now)

RECURSIVE ApplyAnomalies(_, _, _, _, _)
ApplyAnomalies(tbl, job, k, run_id, now) ==
    IF k = 0 THEN tbl
    ELSE UpsertAnomaly(ApplyAnomalies(tbl, job, k - 1, run_id, now),
                       job.records[k], job.metric, run_id, now)

(* what a call asked the row of a key to be *)
ForecastImage(f, job, run_id) ==
    [date |-> f.date, metric_name |-> job.metric,
     predicted_value |-> f.predicted, lower_bound |-> f.lower_bound,
     upper_bound |-> f.upper_bound, model_run_id |-> run_id,
     model_name |-> job.model_name, model_version |-> job.model_version]

AnomalyImage(a, job, run_id) ==
    [date |-> a.date, metric_name |-> job.metric,
     actual_value |-> a.actual, expected_value |-> a.expected,
     deviation_pct |-> DictGet(a, "deviation_pct", 0),
     z_score |-> DictGet(a, "z_score", 0),
     anomaly_type |-> a.anomaly_type, severity |-> a.severity,
     business_interpretation |-> DictGet(a, "business_interpretation", None),
     recommended_action |-> DictGet(a, "recommended_action", None),
     model_run_id |-> run_id]

Overwrite(last, images) ==
    {g \in last : \A n \in images : <<n.date, n.metric_name>> # <<g.date, g.metric_name>>}
        \cup images

(***************************************************************************)
(* Actions of the service.  Its endpoints are "async def" handlers that    *)
(* never await: uvicorn's one event loop runs a handler to its response    *)
(* before it takes the next request, so the service is caller 1 and a      *)
(* request is received only when no handler is running.                    *)
(***************************************************************************)
Receive(p, pl, run_id) ==
    /\ plan[p] = <<>>
    /\ nreq < MaxRequests
    /\ plan' = [plan EXCEPT ![p] = pl]
    /\ idx' = [idx EXCEPT ![p] = 0]
    /\ cur_run' = [cur_run EXCEPT ![p] = run_id]
    /\ cursor' = [cursor EXCEPT ![p] = None]
    /\ nreq' = nreq + 1
    /\ clock' = clock + 1
    /\ UNCHANGED <<streaming, tables, resp, last_f, last_a, result, called>>

(* a request arrives: args holds the call until its response is sent *)
Arrive(c) ==
    /\ Receive(1, c.jobs, None)
    /\ args' = [endpoint |-> c.endpoint, req |-> c.req,
                has_data |-> c.has_data, unusable |-> c.unusable,
                detected |-> c.detected]

Idle == \A q \in Procs : plan[q] = <<>>

PostForecast == Idle /\ \E c \in ForecastPlans : Arrive(c)

PostAnomalies == Idle /\ \E c \in AnomalyPlans : Arrive(c)

PostTrain == Idle /\ \E c \in TrainPlans : Arrive(c)

PostBacktest == Idle /\ \E c \in BacktestPlans : Arrive(c)

PostAcknowledge == Idle /\ \E c \in AcknowledgePlans : Arrive(c)

(* save_model_run: one INSERT and its commit *)
SaveModelRun(p) ==
    /\ InJob(p, "run")
    /\ run_seq' = run_seq + 1
    /\ runs' = InsertModelRun(runs, ModelRunRow(Job(p).args, run_seq + 1, clock))
    /\ cur_run' = [cur_run EXCEPT ![p] = Some(run_seq + 1)]
    /\ plan' = [plan EXCEPT ![p] = Tail(plan[p])]
    /\ UNCHANGED <<streaming, forecasts, anomalies, clock, nreq, idx, cursor, resp,
                   last_f, last_a, harness>>

(* a save call on a connection in autocommit mode: every statement is      *)
(* visible as soon as it is executed                                       *)
ExecuteUpsertAutocommit(p, kind) ==
    /\ InJob(p, kind)
    /\ idx[p] < Len(Job(p).records)
    /\ Blockers(p) = {} \/ Deadlocked(p)
    /\ IF Blockers(p) = {}
       THEN /\ idx' = [idx EXCEPT ![p] = idx[p] + 1]
            /\ plan' = plan
            /\ forecasts' = IF kind = "forecasts"
                            THEN UpsertForecast(forecasts, Job(p).records[idx[p] + 1],
                                     Job(p).metric, Job(p).model_name,
                                     Job(p).model_version, cur_run[p], clock)
                            ELSE forecasts
            /\ anomalies' = IF kind = "anomalies"
                            THEN UpsertAnomaly(anomalies, Job(p).records[idx[p] + 1],
                                     Job(p).metric, None, clock)
                            ELSE anomalies
       ELSE /\ idx' = [idx EXCEPT ![p] = 0]
            /\ plan' = [plan EXCEPT ![p] =
                           <<Respond(500, "deadlock detected", None)>>]
            /\ UNCHANGED <<forecasts, anomalies>>
    /\ UNCHANGED <<streaming, runs, run_seq, clock, nreq, cur_run, cursor, resp, last_f, last_a,
                   harness>>

(* one conn.execute of a save call: it takes the row lock of its key, or   *)
(* is aborted when waiting for the lock would close a cycle of waits (the  *)
(* transaction is rolled back and the caller gets the error).              *)
ExecuteUpsert(p, kind) ==
    /\ InJob(p, kind)
    /\ idx[p] < Len(Job(p).records)
    /\ Blockers(p) = {} \/ Deadlocked(p)
    /\ IF Blockers(p) = {}
       THEN /\ idx' = [idx EXCEPT ![p] = idx[p] + 1]
            /\ plan' = plan
       ELSE /\ idx' = [idx EXCEPT ![p] = 0]
            /\ plan' = [plan EXCEPT ![p] =
                           <<Respond(500, "deadlock detected", None)>>]
    /\ UNCHANGED <<streaming, tables, clock, nreq, cur_run, cursor, resp, last_f, last_a,
                   harness>>

ExecuteForecast(p) == ExecuteUpsert(p, "forecasts")

(* a conn.execute of a save call that raises (the statement is rejected,   *)
(* the connection is lost): the error leaves the "with" block, which       *)
(* closes the connection without a commit, and the function, which catches *)
(* nothing.  idx keeps the number of statements executed before it.        *)
StatementRaises(p) ==
    /\ InJob(p, "forecasts") \/ InJob(p, "anomalies")
    /\ idx[p] < Len(Job(p).records)
    /\ plan' = [plan EXCEPT ![p] = <<Respond(500, "OperationalError", None)>>]
    /\ UNCHANGED <<streaming, tables, clock, nreq, idx, cur_run, cursor, resp, last_f, last_a,
                   harness>>

ExecuteAnomaly(p) == ExecuteUpsert(p, "anomalies")

(* conn.commit() of save_forecasts_to_db *)
CommitForecasts(p) ==
    /\ InJob(p, "forecasts")
    /\ idx[p] = Len(Job(p).records)
    /\ forecasts' = ApplyForecasts(forecasts, Job(p), idx[p], cur_run[p], clock)
    /\ last_f' = Overwrite(last_f,
           {ForecastImage(Job(p).records[k], Job(p), cur_run[p]) : k \in 1..idx[p]})
    /\ idx' = [idx EXCEPT ![p] = 0]
    /\ plan' = [plan EXCEPT ![p] = Tail(plan[p])]
    /\ UNCHANGED <<streaming, anomalies, runs, run_seq, clock, nreq, cur_run, cursor, resp,
                   last_a, harness>>

AnomalyRunId(p) == IF Job(p).with_run THEN cur_run[p] ELSE None

(* conn.commit() of save_anomalies_to_db *)
CommitAnomalies(p) ==
    /\ InJob(p, "anomalies")
    /\ idx[p] = Len(Job(p).records)
    /\ anomalies' = ApplyAnomalies(anomalies, Job(p), idx[p], AnomalyRunId(p), clock)
    /\ last_a' = Overwrite(last_a,
           {AnomalyImage(Job(p).records[k], Job(p), AnomalyRunId(p)) : k \in 1..idx[p]})
    /\ idx' = [idx EXCEPT ![p] = 0]
    /\ plan' = [plan EXCEPT ![p] = Tail(plan[p])]
    /\ UNCHANGED <<streaming, forecasts, runs, run_seq, clock, nreq, cur_run, cursor, resp,
                   last_f, harness>>

(* the UPDATE of acknowledge_anomaly and its commit: it sees the committed *)
(* rows only, and waits while another transaction holds the row it found.  *)
Acknowledge(p) ==
    /\ InJob(p, "ack")
    /\ Blockers(p) = {}
    /\ anomalies' = AcknowledgeRows(anomalies, Job(p).date, Job(p).metric,
                                    Job(p).user, clock)
    /\ cursor' = [cursor EXCEPT ![p] =
                     Some(Cardinality(KeyIndexes(anomalies, Job(p).date, Job(p).metric)))]
    /\ plan' = [plan EXCEPT ![p] = Tail(plan[p])]
    /\ UNCHANGED <<streaming, forecasts, runs, run_seq, clock, nreq, idx, cur_run, resp,
                   last_f, last_a, harness>>

(* the handler returns (or raises its HTTPException) *)
SendResponse(p) ==
    /\ InJob(p, "respond")
    /\ resp' = [resp EXCEPT ![p] = [status |-> Job(p).status,
                                    detail |-> Job(p).detail,
                                    body |-> Job(p).body]]
    /\ plan' = [plan EXCEPT ![p] = <<>>]
    /\ args' = None
    /\ UNCHANGED <<streaming, tables, clock, nreq, idx, cur_run, cursor, last_f, last_a,
                   result, called>>

Steps(p) ==
    \/ SaveModelRun(p)
    \/ ExecuteForecast(p)
    \/ CommitForecasts(p)
    \/ ExecuteAnomaly(p)
    \/ CommitAnomalies(p)
    \/ Acknowledge(p)
    \/ SendResponse(p)

Next ==
    \/ PostForecast
    \/ PostAnomalies
    \/ PostTrain
    \/ PostBacktest
    \/ PostAcknowledge
    \/ \E p \in Procs : Steps(p)

Spec == Init /\ [][Next]_vars

(***************************************************************************)
(* Concurrent writers.  save_forecasts_to_db, save_anomalies_to_db and the *)
(* UPDATE of acknowledge_anomaly, called by several instances of the       *)
(* service at once against the one database.  A batch is in ascending date *)
(* order and of one metric, as every caller builds it (forecast dates come *)
(* from a date range, anomalies from the frame ordered by date).           *)
(***************************************************************************)
WriterForecastDates == {<<45>>, <<45, 46>>}

(* the run a caller has recorded before it saves its forecasts *)
WriterRun ==
    ModelRunRow([model_type |-> "forecast_prophet", metric |-> "total_revenue",
                 train_start |-> 1, train_end |-> 44, train_samples |-> 44,
                 params |-> "prophet_params",
                 mape |-> Some(9620), smape |-> Some(9150), rmse |-> Some(500000),
                 mae |-> Some(430000), baseline_mape |-> Some(21720),
                 baseline_rmse |-> Some(1000000)], 1, 0)

(* what a caller saves: the model's forecast, its name and its run id *)
WriterForecastVariants ==
    {[v |-> 2000, model |-> "prophet", run |-> Some(WriterRun.run_id)],
     [v |-> 500, model |-> "ets", run |-> None]}

WriterForecastJob(ds, w) ==
    ForecastsJob(build_forecast_records(ds,
                     [k \in 1..Len(ds) |-> w.v],
                     [k \in 1..Len(ds) |-> w.v - 1000],
                     [k \in 1..Len(ds) |-> w.v + 1000]),
                 "total_revenue", ModelDisplayName(w.model), SERVICE_VERSION)

WriterAnomalyDates == {<<44>>, <<43, 44>>}

WriterAnomalyJobs ==
    {AnomaliesJob([k \in 1..Len(ds) |->
                      [date |-> ds[k], actual |-> v, expected |-> 3000,
                       deviation_pct |-> DeviationPct(v, 3000),
                       anomaly_type |-> AnomalyType(TRUE, v, 3000),
                       severity |-> "high"]],
                  "total_revenue", FALSE) :
        ds \in WriterAnomalyDates, v \in {9000, 100}}

WriterAckJobs == {AckJob(44, "total_revenue", "ops")}

Returned == Respond(200, "returned", None)

CallSaveForecasts(p) ==
    \E ds \in WriterForecastDates, w \in WriterForecastVariants :
        Receive(p, <<WriterForecastJob(ds, w), Returned>>, w.run) /\ UNCHANGED args

CallSaveAnomalies(p) ==
    \E job \in WriterAnomalyJobs :
        Receive(p, <<job, Returned>>, None) /\ UNCHANGED args

CallAcknowledge(p) ==
    \E job \in WriterAckJobs :
        Receive(p, <<job, Returned>>, None) /\ UNCHANGED args

NextWriters ==
    \E p \in Procs :
        \/ CallSaveForecasts(p)
        \/ CallSaveAnomalies(p)
        \/ CallAcknowledge(p)
        \/ ExecuteForecast(p)
        \/ CommitForecasts(p)
        \/ ExecuteAnomaly(p)
        \/ CommitAnomalies(p)
        \/ Acknowledge(p)
        \/ SendResponse(p)

InitWriters ==
    /\ forecasts = <<>>
    /\ anomalies = <<>>
    /\ runs = <<WriterRun>>
    /\ run_seq = WriterRun.run_id
    /\ clock = 0
    /\ nreq = 0
    /\ plan = [p \in Procs |-> <<>>]
    /\ idx = [p \in Procs |-> 0]
    /\ cur_run = [p \in Procs |-> None]
    /\ cursor = [p \in Procs |-> None]
    /\ resp = [p \in Procs |-> NoResponse]
    /\ last_f = {}
    /\ last_a = {}
    /\ args = None
    /\ result = None
    /\ called = "no"
    /\ csv_rows = 0
    /\ state_file = NoStateFile
    /\ raw_transactions = <<>>
    /\ etl_run_log = <<>>
    /\ streamer = Stopped
    /\ crashes = 0

SpecWriters == InitWriters /\ [][NextWriters]_vars

(***************************************************************************)
(* The same callers on a database whose statements can fail.               *)
(***************************************************************************)
NextFaults == NextWriters \/ \E p \in Procs : StatementRaises(p)

SpecFaults == InitWriters /\ [][NextFaults]_vars

(***************************************************************************)
(* prepare_metric_series called on its own.  The raw frame has, for each   *)
(* day of 1..MaxPrepDate, no row, a row with a NULL cell, a row with 0 or  *)
(* a row with a positive value, in ascending date order.                   *)
(***************************************************************************)
MaxPrepDate == 4

PrepCells == {"absent", "null", "zero", "value"}

RawFrame(c) ==
    SelectSeq([d \in 1..MaxPrepDate |->
                  [ds |-> d,
                   y |-> IF c[d] = "null" THEN None
                         ELSE IF c[d] = "zero" THEN Some(0)
                         ELSE Some(1000 + d)]],
              LAMBDA r : c[r.ds] # "absent")

InitPrepare ==
    /\ InitService
    /\ \E c \in [1..MaxPrepDate -> PrepCells] : args = RawFrame(c)
    /\ result = None
    /\ called = "no"

CallPrepare ==
    /\ called = "no"
    /\ result' = prepare_metric_series(args)
    /\ called' = "prepare_metric_series"
    /\ UNCHANGED <<streaming, tables, clock, nreq, plan, idx, cur_run, cursor, resp,
                   last_f, last_a, args>>

NextPrepare == CallPrepare

SpecPrepare == InitPrepare /\ [][NextPrepare]_vars

(***************************************************************************)
(* backtest_model and select_best_model called on their own, on frames of  *)
(* every shape and of the lengths around the thresholds.                   *)
(***************************************************************************)
MaxEvalDays == 45

MaxTestDays == 15

EvalLengths == {0, 29, 30, 43, 44, MaxEvalDays}

EvalTestDays == {0, 1, DEFAULT_TEST_DAYS, MaxTestDays}

EvalModels == {"prophet", "ets", "arima"}

EvalLibs ==
    {LibsOf("raise", "exact"), LibsOf("exact", "raise"), LibsOf("flat", "neg"),
     LibsOf("neg", "flat"), LibsOf("raise", "raise"), LibsOf("flat", "flat")}

InitEval ==
    /\ InitService
    /\ \E shape \in FrameShapes, n \in EvalLengths, h \in EvalTestDays,
          m \in EvalModels, libs \in EvalLibs :
          args = [df |-> Frame(shape, n), metric |-> "total_revenue",
                  model_type |-> m, test_days |-> h, libs |-> libs]
    /\ result = None
    /\ called = "no"

CallBacktest ==
    /\ called = "no"
    /\ result' = backtest_model(args.df, args.metric, args.model_type,
                                args.test_days,
                                DictGet(args.libs, args.model_type, "raise"))
    /\ called' = "backtest_model"
    /\ UNCHANGED <<streaming, tables, clock, nreq, plan, idx, cur_run, cursor, resp,
                   last_f, last_a, args>>

CallSelect ==
    /\ called = "no"
    /\ result' = select_best_model(args.df, args.metric, args.test_days,
                                   args.libs)
    /\ called' = "select_best_model"
    /\ UNCHANGED <<streaming, tables, clock, nreq, plan, idx, cur_run, cursor, resp,
                   last_f, last_a, args>>

NextEval == CallBacktest \/ CallSelect

SpecEval == InitEval /\ [][NextEval]_vars

(***************************************************************************)
(* detect_anomalies_enhanced called on its own: a series of days 1..n at   *)
(* the level 100, with one day off the level or none and with NULL cells   *)
(* or none, a contamination and a detector input.                          *)
(***************************************************************************)
MaxDetectDays == 60

DetectLengths == {13, 14, 15, 20, MaxDetectDays}

DETECT_LEVEL == 100000

(* the value of the day off the level: 1000, 130 or 0 *)
DetectOffValues == {1000000, 130000, 0}

(* the days that can be off the level in a series of n days; 0 is none *)
DetectOffDays(n) == {d \in 0..n : d <= 16 \/ d >= n - 1}

(* the number of NULL cells, on the days from day 2 on *)
DetectNulls == {0, 2}

(* valid (0.1, 0.5) and invalid (0, 0.9) *)
DetectContaminations == {DEFAULT_CONTAMINATION, 500, 0, 900}

DetectSeries(n, off, value, nulls) ==
    [d \in 1..n |->
        [ds |-> d,
         y |-> IF d >= 2 /\ d < 2 + nulls /\ d # off THEN None
               ELSE IF d = off THEN Some(value)
               ELSE Some(DETECT_LEVEL)]]

(* days 1..n of weekdays that alternate between 100 and 200, with every     *)
(* weekend cell NULL but the one of day n                                  *)
LoneWeekendSeries(n) ==
    [d \in 1..n |->
        [ds |-> d,
         y |-> IF IsWeekend(d) THEN (IF d = n THEN Some(DETECT_LEVEL) ELSE None)
               ELSE IF d % 2 = 0 THEN Some(DETECT_LEVEL)
               ELSE Some(2 * DETECT_LEVEL)]]

DetectFrames ==
    UNION {{DetectSeries(n, off, value, nulls) :
                off \in DetectOffDays(n), value \in DetectOffValues,
                nulls \in DetectNulls} : n \in DetectLengths}
    \cup {LoneWeekendSeries(n) : n \in {m \in DetectLengths : IsWeekend(m)}}

InitDetect ==
    /\ InitService
    /\ \E df \in DetectFrames, c \in DetectContaminations, det \in DetectorInputs :
          args = [df |-> df, contamination |-> c, det |-> det]
    /\ result = None
    /\ called = "no"

CallDetect ==
    /\ called = "no"
    /\ result' = detect_anomalies_enhanced(args.df, args.contamination, args.det)
    /\ called' = "detect_anomalies_enhanced"
    /\ UNCHANGED <<streaming, tables, clock, nreq, plan, idx, cur_run, cursor, resp,
                   last_f, last_a, args>>

NextDetect == CallDetect

SpecDetect == InitDetect /\ [][NextDetect]_vars

(***************************************************************************)
(* The columns of one row computed on their own: a weekday or a weekend    *)
(* day, the expected value and deviation of the day, the IsolationForest   *)
(* flag, and an actual value at a distance from the expected one that      *)
(* puts the z-score (deviation 1) or the percentage (expected 10) on, just *)
(* above or below a tier boundary.                                         *)
(***************************************************************************)
RowDays == {1, 5}

RowExpected == {10000, 1000000}

RowStd == {0, 1000, 1000000}

RowDistances ==
    {0, 1500, 1501, 2000, 2001, 2500, 2501, 3000, 3001, 4000, 4001, 5000, 5001}

InitRow ==
    /\ InitService
    /\ \E ds \in RowDays, e \in RowExpected, sd \in RowStd, d \in RowDistances,
          sign \in {-1, 1}, flag \in BOOLEAN :
          args = [ds |-> ds, y |-> e + sign * d,
                  st |-> [expected |-> e, std |-> sd, if_anomaly |-> flag]]
    /\ result = None
    /\ called = "no"

CallRow ==
    /\ called = "no"
    /\ result' = DetectorRow(args.ds, args.y, args.st)
    /\ called' = "DetectorRow"
    /\ UNCHANGED <<streaming, tables, clock, nreq, plan, idx, cur_run, cursor, resp,
                   last_f, last_a, args>>

NextRow == CallRow

SpecRow == InitRow /\ [][NextRow]_vars

(***************************************************************************)
(* calculate_mape called on its own, on two arrays of one length           *)
(***************************************************************************)
MaxMapeLen == 3

(* -2.0, 0, 1.0 and 4.0 *)
MapeValues == {-2000, 0, 1000, 4000}

InitMape ==
    /\ InitService
    /\ \E n \in 0..MaxMapeLen :
          \E actual \in [1..n -> MapeValues], predicted \in [1..n -> MapeValues] :
              args = [actual |-> actual \o <<>>, predicted |-> predicted \o <<>>]
    /\ result = None
    /\ called = "no"

CallMape ==
    /\ called = "no"
    /\ result' = calculate_mape(args.actual, args.predicted)
    /\ called' = "calculate_mape"
    /\ UNCHANGED <<streaming, tables, clock, nreq, plan, idx, cur_run, cursor, resp,
                   last_f, last_a, args>>

NextMape == CallMape

SpecMape == InitMape /\ [][NextMape]_vars

(***************************************************************************)
(* naive_baseline_forecast called on its own: a training series 10, 20,    *)
(* 30, ... or 15, 25, 35, ... of one to MaxNaiveLen values, and a horizon. *)
(***************************************************************************)
MaxNaiveLen == 15

MaxNaiveHorizon == 15

InitNaive ==
    /\ InitService
    /\ \E n \in 1..MaxNaiveLen, first \in {10000, 15000},
          horizon \in 0..MaxNaiveHorizon :
          args = [train |-> [k \in 1..n |-> first + 10000 * (k - 1)] \o <<>>,
                  horizon |-> horizon]
    /\ result = None
    /\ called = "no"

CallNaive ==
    /\ called = "no"
    /\ result' = naive_baseline_forecast(args.train, args.horizon) \o <<>>
    /\ called' = "naive_baseline_forecast"
    /\ UNCHANGED <<streaming, tables, clock, nreq, plan, idx, cur_run, cursor, resp,
                   last_f, last_a, args>>

NextNaive == CallNaive

SpecNaive == InitNaive /\ [][NextNaive]_vars

(***************************************************************************)
(* forecast_with_model called on its own: frames of every shape and of the *)
(* lengths around the ETS threshold, a model, a horizon and the library's  *)
(* outcome.                                                                *)
(***************************************************************************)
MaxForecastLen == 20

MaxForecastDays == 7

ForecastLengths == {0, 1, 2, 13, 14, 15, MaxForecastLen}

ForecastHorizons == {1, 2, MaxForecastDays}

InitForecast ==
    /\ InitService
    /\ \E shape \in FrameShapes, n \in ForecastLengths, m \in EvalModels,
          h \in ForecastHorizons, lib \in LibOutcomes :
          args = [df |-> Frame(shape, n), metric |-> "total_revenue",
                  model_type |-> m, forecast_days |-> h, lib |-> lib]
    /\ result = None
    /\ called = "no"

CallForecast ==
    /\ called = "no"
    /\ result' = forecast_with_model(args.df, args.metric, args.model_type,
                                     args.forecast_days, args.lib)
    /\ called' = "forecast_with_model"
    /\ UNCHANGED <<streaming, tables, clock, nreq, plan, idx, cur_run, cursor, resp,
                   last_f, last_a, args>>

NextForecast == CallForecast

SpecForecast == InitForecast /\ [][NextForecast]_vars

(***************************************************************************)
(* The streamer (src/streaming/streamer.py) and the ETL runner             *)
(* (src/streaming/etl_runner.py): one process that reads the CSV file from *)
(* the line of the state file on, inserts the rows into raw_transactions   *)
(* batch by batch, saves the line it has reached after every batch and,    *)
(* if asked to, runs an ETL cycle after it.  A CSV row is its number (the  *)
(* index of enumerate(reader, start=1)).  The process can die at any       *)
(* point (an uncaught exception, a kill); its local variables and its open *)
(* transaction are lost, the file and the committed rows stay.             *)
(***************************************************************************)
MaxCsvRows == 4

MaxCrashes == 2

(* --batch-size, --run-etl, --run-ml and --loop *)
StreamArgs ==
    {[batch_size |-> 2, run_etl |-> TRUE, run_ml |-> FALSE, loop |-> FALSE],
     [batch_size |-> 3, run_etl |-> TRUE, run_ml |-> TRUE, loop |-> TRUE],
     [batch_size |-> 2, run_etl |-> FALSE, run_ml |-> FALSE, loop |-> TRUE],
     [batch_size |-> 3, run_etl |-> FALSE, run_ml |-> FALSE, loop |-> FALSE]}

(* run_full_etl() and run_data_quality_checks() are stored procedures of   *)
(* the database: whether each raises, and the rows (passed, severity) that *)
(* the checks return, are inputs.                                          *)
DqResults ==
    {<<>>,
     <<[passed |-> TRUE, severity |-> "critical"],
       [passed |-> FALSE, severity |-> "warning"]>>,
     <<[passed |-> TRUE, severity |-> "warning"],
       [passed |-> FALSE, severity |-> "critical"]>>}

EtlOutcomes ==
    {[etl |-> "raises", dq |-> "skipped", results |-> <<>>]}
    \cup {[etl |-> "ok", dq |-> "raises", results |-> <<>>]}
    \cup {[etl |-> "ok", dq |-> "ok", results |-> r] : r \in DqResults}

(* a cycle that reports what the ETL step did and ignores the checks *)
EtlStatusOfStepOnly(outcome) ==
    IF outcome.etl = "raises" THEN "failed" ELSE "success"

(* lines 187-199: status is "success" unless the try block raised or a     *)
(* critical check did not pass                                             *)
EtlStatus(outcome) ==
    IF outcome.etl = "raises" \/ outcome.dq = "raises" THEN "failed"
    ELSE IF \E k \in 1..Len(outcome.results) :
               ~outcome.results[k].passed /\ outcome.results[k].severity = "critical"
    THEN "failed"
    ELSE "success"

(* load_state: {"line_number": 0} when there is no file, or its content *)
load_state(file) == IF file.content = "absent" THEN 0 ELSE file.line_number

Running(pc, mode, line_number) ==
    [pc |-> pc, mode |-> mode, line_number |-> line_number,
     last_line |-> line_number, batch |-> <<>>, index |-> line_number,
     in_for |-> FALSE, run_id |-> 0, status |-> "success",
     outcome |-> [etl |-> "ok", dq |-> "ok", results |-> <<>>]]

ml_service ==
    <<tables, clock, nreq, plan, idx, cur_run, cursor, resp, last_f, last_a, harness>>

InitStream ==
    /\ InitService
    /\ args \in StreamArgs
    /\ result = None
    /\ called = "no"

(* rows are appended to the CSV file *)
CsvGrows ==
    /\ csv_rows < MaxCsvRows
    /\ csv_rows' = csv_rows + 1
    /\ UNCHANGED <<ml_service, state_file, raw_transactions, etl_run_log, streamer,
                   crashes>>

(* streamer.py main -> stream_batches, lines 221-228 *)
StartStreamer ==
    /\ streamer.pc = "stopped"
    /\ state_file.content # "empty"
    /\ streamer' = Running("while", "stream", load_state(state_file))
    /\ UNCHANGED <<ml_service, csv_rows, state_file, raw_transactions, etl_run_log,
                   crashes>>

(* json.load of an empty state file raises: the process ends at once *)
StartFails ==
    /\ streamer.pc = "stopped"
    /\ state_file.content = "empty"
    /\ crashes < MaxCrashes
    /\ crashes' = crashes + 1
    /\ UNCHANGED <<ml_service, csv_rows, state_file, raw_transactions, etl_run_log,
                   streamer>>

(* lines 229-232: a pass over the file starts after line_number *)
WhilePass ==
    /\ streamer.pc = "while"
    /\ streamer' = [streamer EXCEPT !.pc = "for", !.batch = <<>>,
                                    !.last_line = streamer.line_number,
                                    !.index = streamer.line_number,
                                    !.in_for = FALSE]
    /\ UNCHANGED <<ml_service, csv_rows, state_file, raw_transactions, etl_run_log,
                   crashes>>

(* lines 232-235 and iter_csv_rows: the next row of the file joins the     *)
(* batch; a full batch is inserted                                         *)
ReadRow ==
    /\ streamer.pc = "for"
    /\ streamer.index < csv_rows
    /\ streamer' = [streamer EXCEPT
           !.index = streamer.index + 1,
           !.batch = Append(streamer.batch, streamer.index + 1),
           !.last_line = streamer.index + 1,
           !.in_for = TRUE,
           !.pc = IF Len(streamer.batch) + 1 >= args.batch_size THEN "insert"
                  ELSE "for"]
    /\ UNCHANGED <<ml_service, csv_rows, state_file, raw_transactions, etl_run_log,
                   crashes>>

(* line 245: the file is exhausted; what is left of a batch is             *)
(* inserted                                                                *)
EndOfFile ==
    /\ streamer.pc = "for"
    /\ streamer.index >= csv_rows
    /\ streamer' = [streamer EXCEPT
           !.in_for = FALSE,
           !.pc = IF streamer.batch # <<>> THEN "insert" ELSE "end_pass"]
    /\ UNCHANGED <<ml_service, csv_rows, state_file, raw_transactions, etl_run_log,
                   crashes>>

(* an insert_batch whose rows are not committed *)
InsertBatchUncommitted ==
    /\ streamer.pc = "insert"
    /\ streamer' = [streamer EXCEPT !.pc = "refresh"]
    /\ UNCHANGED <<ml_service, csv_rows, state_file, raw_transactions, etl_run_log,
                   crashes>>

(* insert_batch: execute_values and conn.commit() *)
InsertBatch ==
    /\ streamer.pc = "insert"
    /\ raw_transactions' = raw_transactions \o streamer.batch
    /\ streamer' = [streamer EXCEPT !.pc = "refresh"]
    /\ UNCHANGED <<ml_service, csv_rows, state_file, etl_run_log, crashes>>

(* update_table_refresh_log(conn, "raw_transactions", ...), lines 237, 247 *)
UpdateRefreshLog ==
    /\ streamer.pc = "refresh"
    /\ streamer' = [streamer EXCEPT !.pc = "save"]
    /\ UNCHANGED <<ml_service, csv_rows, state_file, raw_transactions, etl_run_log,
                   crashes>>

(* line_number = last_line; save_state opens the file for writing, which   *)
(* empties it                                                              *)
SaveStateOpen ==
    /\ streamer.pc = "save"
    /\ streamer' = [streamer EXCEPT !.pc = "dump",
                                    !.line_number = streamer.last_line]
    /\ state_file' = [content |-> "empty", line_number |-> 0]
    /\ UNCHANGED <<ml_service, csv_rows, raw_transactions, etl_run_log, crashes>>

(* json.dump(state, handle) and the close of the file *)
SaveStateDump ==
    /\ streamer.pc = "dump"
    /\ state_file' = [content |-> "json", line_number |-> streamer.line_number]
    /\ streamer' = [streamer EXCEPT
           !.pc = IF args.run_etl THEN "etl_start" ELSE "batch_done"]
    /\ UNCHANGED <<ml_service, csv_rows, raw_transactions, etl_run_log, crashes>>

(* etl_runner.py main: one ETL cycle on its own *)
StartEtlRunner ==
    /\ streamer.pc = "stopped"
    /\ streamer' = Running("etl_start", "etl_runner", 0)
    /\ UNCHANGED <<ml_service, csv_rows, state_file, raw_transactions, etl_run_log,
                   crashes>>

(* start_etl_run: the row of the run, 'running', and its commit; updates   *)
(* counts the UPDATE statements that have changed the row                  *)
StartEtlRun ==
    /\ streamer.pc = "etl_start"
    /\ etl_run_log' = Append(etl_run_log,
           [run_id |-> Len(etl_run_log) + 1, status |-> "running",
            error_message |-> FALSE, updates |-> 0])
    /\ streamer' = [streamer EXCEPT !.pc = "etl_try",
                                    !.run_id = Len(etl_run_log) + 1,
                                    !.status = "success"]
    /\ UNCHANGED <<ml_service, csv_rows, state_file, raw_transactions, crashes>>

(* the try block of run_etl_cycle and its except clause *)
RunEtl ==
    /\ streamer.pc = "etl_try"
    /\ \E outcome \in EtlOutcomes :
          streamer' = [streamer EXCEPT !.pc = "etl_finish",
                                       !.outcome = outcome,
                                       !.status = EtlStatus(outcome)]
    /\ UNCHANGED <<ml_service, csv_rows, state_file, raw_transactions, etl_run_log,
                   crashes>>

(* finish_etl_run: the UPDATE of the row of the run and its commit *)
FinishEtlRun ==
    /\ streamer.pc = "etl_finish"
    /\ etl_run_log' = [i \in 1..Len(etl_run_log) |->
           IF etl_run_log[i].run_id = streamer.run_id
           THEN [etl_run_log[i] EXCEPT !.status = streamer.status,
                                       !.error_message = (streamer.status = "failed"),
                                       !.updates = etl_run_log[i].updates + 1]
           ELSE etl_run_log[i]]
    /\ streamer' = [streamer EXCEPT !.pc = "etl_refresh"]
    /\ UNCHANGED <<ml_service, csv_rows, state_file, raw_transactions, crashes>>

(* run_etl_cycle has returned to its caller *)
AfterCycle(s) ==
    IF s.mode = "etl_runner" THEN [pc |-> "done"]
    ELSE [s EXCEPT !.pc = "batch_done", !.run_id = 0, !.status = "success",
                   !.outcome = [etl |-> "ok", dq |-> "ok", results |-> <<>>]]

(* the nine update_table_refresh_log calls of the finally clause *)
EtlRefreshLogs ==
    /\ streamer.pc = "etl_refresh"
    /\ streamer' = IF args.run_ml THEN [streamer EXCEPT !.pc = "trigger_ml"]
                   ELSE AfterCycle(streamer)
    /\ UNCHANGED <<ml_service, csv_rows, state_file, raw_transactions, etl_run_log,
                   crashes>>

(* trigger_ml: POST /train to the service, whose answer is only logged;    *)
(* what the service does with the request is PostTrain                     *)
TriggerMl ==
    /\ streamer.pc = "trigger_ml"
    /\ streamer' = AfterCycle(streamer)
    /\ UNCHANGED <<ml_service, csv_rows, state_file, raw_transactions, etl_run_log,
                   crashes>>

(* lines 242-243 after a full batch (the for loop goes on), line 253       *)
(* after the rest of the file                                              *)
BatchDone ==
    /\ streamer.pc = "batch_done"
    /\ streamer' = IF streamer.in_for
                   THEN [streamer EXCEPT !.pc = "for", !.batch = <<>>]
                   ELSE [streamer EXCEPT !.pc = "end_pass"]
    /\ UNCHANGED <<ml_service, csv_rows, state_file, raw_transactions, etl_run_log,
                   crashes>>

(* lines 253-260: the end of a pass over the file *)
EndPass ==
    /\ streamer.pc = "end_pass"
    /\ streamer' = IF args.loop THEN [streamer EXCEPT !.pc = "while"]
                   ELSE [pc |-> "done"]
    /\ UNCHANGED <<ml_service, csv_rows, state_file, raw_transactions, etl_run_log,
                   crashes>>

(* the process dies: a database call raises outside the try block of       *)
(* run_etl_cycle, or the process is killed                                 *)
Crash ==
    /\ streamer.pc \notin {"stopped", "done"}
    /\ crashes < MaxCrashes
    /\ streamer' = Stopped
    /\ crashes' = crashes + 1
    /\ UNCHANGED <<ml_service, csv_rows, state_file, raw_transactions, etl_run_log>>

NextStream ==
    \/ CsvGrows
    \/ StartStreamer
    \/ StartFails
    \/ WhilePass
    \/ ReadRow
    \/ EndOfFile
    \/ InsertBatch
    \/ UpdateRefreshLog
    \/ SaveStateOpen
    \/ SaveStateDump
    \/ StartEtlRunner
    \/ StartEtlRun
    \/ RunEtl
    \/ FinishEtlRun
    \/ EtlRefreshLogs
    \/ TriggerMl
    \/ BatchDone
    \/ EndPass
    \/ Crash

SpecStream == InitStream /\ [][NextStream]_vars

(***************************************************************************)
(* Properties                                                              *)
(***************************************************************************)
SameKey(r, q) == r.date = q.date /\ r.metric_name = q.metric_name

(* a row of ml_forecast_daily without its update timestamp *)
ForecastRowImage(r) ==
    [date |-> r.date, metric_name |-> r.metric_name,
     predicted_value |-> r.predicted_value, lower_bound |-> r.lower_bound,
     upper_bound |-> r.upper_bound, model_run_id |-> r.model_run_id,
     model_name |-> r.model_name, model_version |-> r.model_version]

(* the columns of a row of ml_anomalies_daily that an upsert writes *)
AnomalyRowImage(r) ==
    [date |-> r.date, metric_name |-> r.metric_name,
     actual_value |-> r.actual_value, expected_value |-> r.expected_value,
     deviation_pct |-> r.deviation_pct, z_score |-> r.z_score,
     anomaly_type |-> r.anomaly_type, severity |-> r.severity,
     business_interpretation |-> r.business_interpretation,
     recommended_action |-> r.recommended_action,
     model_run_id |-> r.model_run_id]

AckFields(r) == <<r.acknowledged, r.acknowledged_by, r.acknowledged_at>>

UniqueKeys(tbl) ==
    \A i, j \in 1..Len(tbl) : SameKey(tbl[i], tbl[j]) => i = j

(* the step is the commit of caller p's save call of the given kind *)
Commits(p, kind) ==
    /\ InJob(p, kind)
    /\ idx[p] = Len(Job(p).records)
    /\ plan'[p] = Tail(plan[p])

(* C1: with two or more callers of save_forecasts_to_db and                *)
(* save_anomalies_to_db running at once on the same (date, metric) keys,   *)
(* in every interleaving neither table ever holds two rows with one key,   *)
(* no caller is answered with a write failure (the only one the database   *)
(* can raise here is an aborted deadlock), and the row of every key is the *)
(* row the last committed call on that key wrote.                          *)
C1_ConcurrentWritersConverge ==
    /\ UniqueKeys(forecasts)
    /\ UniqueKeys(anomalies)
    /\ \A p \in Procs :
          /\ resp[p].status # 500
          /\ plan[p] # <<>> => plan[p][Len(plan[p])].status # 500
    /\ {ForecastRowImage(forecasts[i]) : i \in 1..Len(forecasts)} = last_f
    /\ {AnomalyRowImage(anomalies[i]) : i \in 1..Len(anomalies)} = last_a

(* C1 witness: one caller waits for the row lock of a key that another     *)
(* caller's open transaction has written, and the key already has a        *)
(* committed row from an earlier call.                                     *)
C1_Witness ==
    \E p, q \in Procs :
        /\ p # q
        /\ InJob(q, "forecasts")
        /\ Blockers(q) = {p}
        /\ \A k \in Wants(q) : KeyIndexes(forecasts, k[2], k[3]) # {}

(* C2: after any sequence of save_forecasts_to_db calls on a key, the      *)
(* table holds exactly one row for the key, and its predicted value,       *)
(* bounds, model name, model version and run reference are those of the    *)
(* last call; a call that repeats what the rows already hold leaves every  *)
(* row as it was (but for the update timestamp).                           *)
C2_UpsertForecastsLastWins ==
    /\ [](\A g \in last_f :
             /\ Cardinality(KeyIndexes(forecasts, g.date, g.metric_name)) = 1
             /\ \A i \in KeyIndexes(forecasts, g.date, g.metric_name) :
                   ForecastRowImage(forecasts[i]) = g)
    /\ [][\A p \in Procs :
             (/\ Commits(p, "forecasts")
              /\ \A k \in 1..Len(Job(p).records) :
                    ForecastImage(Job(p).records[k], Job(p), cur_run[p]) \in last_f)
             => /\ Len(forecasts') = Len(forecasts)
                /\ \A i \in 1..Len(forecasts) :
                      ForecastRowImage(forecasts'[i]) = ForecastRowImage(forecasts[i])]_vars

(* C2 witness: the row of day 45 was written after the row of day 46 and   *)
(* with another value, model name and run id, so a later call overwrote    *)
(* what the call that wrote both days had stored for day 45.               *)
C2_Witness ==
    \E i, j \in 1..Len(forecasts) :
        /\ forecasts[i].date = 45
        /\ forecasts[j].date = 46
        /\ forecasts[i].metric_name = forecasts[j].metric_name
        /\ forecasts[i].updated_at > forecasts[j].updated_at
        /\ forecasts[i].predicted_value # forecasts[j].predicted_value
        /\ forecasts[i].model_name # forecasts[j].model_name
        /\ forecasts[i].model_run_id # forecasts[j].model_run_id

(* C3: a commit of save_anomalies_to_db leaves the acknowledged flag, the  *)
(* acknowledger and the acknowledgment time of every acknowledged row as   *)
(* they were, and gives the rows of the keys it writes the values of the   *)
(* call.                                                                   *)
C3_AcknowledgmentSurvivesUpsert ==
    [][\A p \in Procs :
          Commits(p, "anomalies")
          => /\ Len(anomalies') >= Len(anomalies)
             /\ \A i \in 1..Len(anomalies) :
                   anomalies[i].acknowledged
                   => /\ AckFields(anomalies'[i]) = AckFields(anomalies[i])
                      /\ SameKey(anomalies'[i], anomalies[i])
                      /\ \A k \in 1..Len(Job(p).records) :
                            (/\ Job(p).records[k].date = anomalies[i].date
                             /\ Job(p).metric = anomalies[i].metric_name)
                            => AnomalyRowImage(anomalies'[i]) =
                                  AnomalyImage(Job(p).records[k], Job(p),
                                               AnomalyRunId(p))]_vars

(* C3 witness: an acknowledged row that a later call has overwritten with  *)
(* other values than it had when it was acknowledged.                      *)
C3_Witness ==
    \E i \in 1..Len(anomalies) :
        /\ anomalies[i].acknowledged
        /\ anomalies[i].acknowledged_at # None
        /\ anomalies[i].updated_at > anomalies[i].acknowledged_at[1]

(* C4: the response to an acknowledge whose UPDATE matched no row carries  *)
(* a count of affected rows, and the count is 0.  The handler's response   *)
(* has the fields status, date and metric.                                 *)
C4_AcknowledgeReportsZeroRows ==
    \A p \in Procs :
        (resp[p].detail = "acknowledged" /\ cursor[p] = Some(0))
        => \E f \in DOMAIN resp[p].body \ {"status", "date", "metric"} :
               resp[p].body[f] = 0

(* C5: every step leaves the rows ml_model_runs already has as they are;   *)
(* a save_model_run step adds exactly one row, whose run id no earlier row *)
(* has, and no other step adds one.                                        *)
C5_LedgerAppendOnly ==
    [][/\ Len(runs') >= Len(runs)
       /\ SubSeq(runs', 1, Len(runs)) = runs
       /\ IF \E p \in Procs : InJob(p, "run") /\ plan'[p] = Tail(plan[p])
          THEN /\ Len(runs') = Len(runs) + 1
               /\ \A i \in 1..Len(runs) : runs[i].run_id # runs'[Len(runs')].run_id
          ELSE Len(runs') = Len(runs)]_vars

(* C5 witness: the ledger has two rows, and forecasts and anomalies have   *)
(* been written and an anomaly acknowledged since the first.               *)
C5_Witness ==
    /\ Len(runs) >= 2
    /\ forecasts # <<>>
    /\ \E i \in 1..Len(anomalies) : anomalies[i].acknowledged

(* C6: the improvement_pct of a backtest bundle is null when the bundle's  *)
(* baseline_mape is 0.                                                     *)
C6_ImprovementNullWithoutBaseline ==
    (called = "backtest_model" /\ result.ok /\ result.baseline_mape = 0)
    => result.improvement_pct = None

(* C7: for a non-empty raw frame in which every row has a value,           *)
(* prepare_metric_series returns exactly one row for every day from the    *)
(* first to the last input date, in ascending order; a day of the input    *)
(* keeps its value and a day the input lacks has the value 0.              *)
C7_PreparedSeriesGapFree ==
    (/\ called = "prepare_metric_series"
     /\ args # <<>>
     /\ \A i \in 1..Len(args) : args[i].y # None)
    => LET lo == args[1].ds
           hi == args[Len(args)].ds
       IN /\ Len(result) = hi - lo + 1
          /\ \A k \in 1..Len(result) :
                /\ result[k].ds = lo + k - 1
                /\ \A i \in 1..Len(args) :
                      args[i].ds = result[k].ds => result[k].y = args[i].y[1]
                /\ (\A i \in 1..Len(args) : args[i].ds # result[k].ds)
                      => result[k].y = 0

(* C7 witness: a prepared frame with more rows than the raw frame, whose   *)
(* rows all have values: a day was missing and has been filled in.         *)
C7_Witness ==
    /\ called = "prepare_metric_series"
    /\ args # <<>>
    /\ \A i \in 1..Len(args) : args[i].y # None
    /\ Len(result) > Len(args)
    /\ \E k \in 1..Len(result) : result[k].y > 0

NonNegative(f) == f.predicted >= 0 /\ f.lower_bound >= 0 /\ f.upper_bound >= 0

(* C8: every forecast record a handler has from forecast_with_model (the   *)
(* records of its save call and of its response) and every row of          *)
(* ml_forecast_daily has predicted >= 0, lower bound >= 0 and upper        *)
(* bound >= 0, whatever the sign of the model's output.                    *)
C8_ForecastsNonNegative ==
    /\ \A p \in Procs : \A j \in 1..Len(plan[p]) :
          /\ plan[p][j].kind = "forecasts"
             => \A k \in 1..Len(plan[p][j].records) :
                    NonNegative(plan[p][j].records[k])
          /\ (plan[p][j].kind = "respond" /\ plan[p][j].detail = "forecast")
             => \A k \in 1..Len(plan[p][j].body) : NonNegative(plan[p][j].body[k])
    /\ \A i \in 1..Len(forecasts) :
          /\ forecasts[i].predicted_value >= 0
          /\ forecasts[i].lower_bound >= 0
          /\ forecasts[i].upper_bound >= 0

(* C8 witness: a stored row whose prediction and lower bound were clipped  *)
(* to 0 (the model's output for the day was negative) beside one stored    *)
(* with a positive prediction.                                             *)
C8_Witness ==
    /\ \E i \in 1..Len(forecasts) :
          forecasts[i].predicted_value = 0 /\ forecasts[i].lower_bound = 0
    /\ \E i \in 1..Len(forecasts) : forecasts[i].predicted_value > 0

(* C9: backtest_model on a series that prepares to n days, with holdout H, *)
(* throws InsufficientData naming H + 30 when n < H + 30 and does not      *)
(* throw InsufficientData when n >= H + 30; with H = 14 and n = 44 a       *)
(* supported model whose fit does not throw returns its bundle.            *)
C9_InsufficientDataThreshold ==
    called = "backtest_model"
    => LET n == Len(prepare_metric_series(args.df))
           H == args.test_days
       IN /\ n < H + 30
             => /\ ~result.ok
                /\ result.error = "InsufficientData"
                /\ result.need = H + 30
          /\ n >= H + 30
             => (result.ok \/ result.error # "InsufficientData")
          /\ (/\ H = 14
              /\ n = 44
              /\ args.model_type \in {"prophet", "ets"}
              /\ args.libs[args.model_type] # "raise")
             => result.ok

(* C9 witness: a 43-day series with holdout 14 was refused, naming 44 *)
C9_Witness ==
    /\ called = "backtest_model"
    /\ args.test_days = 14
    /\ Len(prepare_metric_series(args.df)) = 43
    /\ ~result.ok
    /\ result.need = 44

(* the backtest of candidate m on its own, for the arguments of the call *)
OwnBacktest(m) ==
    backtest_model(args.df, args.metric, m, args.test_days, args.libs[m])

(* C10: select_best_model leaves out a candidate whose backtest throws and *)
(* evaluates every other: its results are the bundles of the candidates    *)
(* that did not throw, each as the candidate's backtest alone returns it,  *)
(* and when there is one it returns a winner among them.                   *)
C10_SelectionIsolatesFailures ==
    called = "select_best_model"
    => LET usable == {m \in {"prophet", "ets"} : OwnBacktest(m).ok}
       IN /\ result.ok <=> usable # {}
          /\ result.ok
             => /\ result.best \in usable
                /\ Len(result.results) = Cardinality(usable)
                /\ \A m \in usable :
                      \E i \in 1..Len(result.results) :
                          result.results[i] = OwnBacktest(m)

(* C10 witness: one candidate threw and the other is the winner *)
C10_Witness ==
    /\ called = "select_best_model"
    /\ args.libs["prophet"] = "raise"
    /\ result.ok
    /\ result.best = "ets"
    /\ Len(result.results) = 1

(* the position of a candidate in FORECAST_MODELS *)
Registered(m) == CHOOSE i \in 1..Len(FORECAST_MODELS) : FORECAST_MODELS[i] = m

(* C11: select_best_model returns the usable candidate whose backtest mape *)
(* is lowest, on a tie the one registered first (prophet before ets), and  *)
(* its list holds the bundle of every usable candidate and of no other.    *)
C11_LowestMapeFirstRegistered ==
    (called = "select_best_model" /\ result.ok)
    => LET usable == {m \in {"prophet", "ets"} : OwnBacktest(m).ok}
       IN /\ result.best \in usable
          /\ \A m \in usable :
                \/ OwnBacktest(result.best).mape < OwnBacktest(m).mape
                \/ /\ OwnBacktest(result.best).mape = OwnBacktest(m).mape
                   /\ Registered(result.best) <= Registered(m)
          /\ {result.results[i] : i \in 1..Len(result.results)}
                = {OwnBacktest(m) : m \in usable}
          /\ \A i \in 1..Len(result.results) : result.results[i].ok

(* C11 witness: both candidates are usable with the same mape, and the     *)
(* first registered one is returned                                        *)
C11_Witness ==
    /\ called = "select_best_model"
    /\ result.ok
    /\ Len(result.results) = 2
    /\ result.results[1].mape = result.results[2].mape
    /\ result.results[1].model_type # result.results[2].model_type
    /\ result.best = "prophet"

(* the rows of the two tables the request in progress has written for a    *)
(* metric: requests are served one at a time and each has its own clock    *)
(* value                                                                   *)
WrittenRuns(m) ==
    {i \in 1..Len(runs) : runs[i].target_metric = m /\ runs[i].run_timestamp = clock}

WrittenForecasts(m) ==
    {i \in 1..Len(forecasts) :
        forecasts[i].metric_name = m /\ forecasts[i].updated_at = clock}

(* the request in progress selects a model for metric m *)
SelectsFor(m) ==
    /\ args # None
    /\ args.has_data
    /\ \/ args.endpoint = "train"
       \/ /\ args.endpoint = "forecast"
          /\ args.req.metric = m
          /\ normalize_model_name(args.req.model).ok
          /\ normalize_model_name(args.req.model).model = DEFAULT_FORECAST_MODEL

(* C12: when the backtest of every candidate fails on a metric, a forecast *)
(* request with model 'auto' and a training request end in the error       *)
(* NoUsableModel (training: in a failure, and in NoUsableModel when the    *)
(* metric is its first), and at no point of the request is there a model   *)
(* run or a forecast row it wrote for that metric.                         *)
C12_NoUsableModelWritesNothing ==
    \A m \in {"total_revenue", "total_orders"} :
        (SelectsFor(m) /\ m \in args.unusable)
        => /\ WrittenRuns(m) = {}
           /\ WrittenForecasts(m) = {}
           /\ plan[1] # <<>>
           /\ plan[1][Len(plan[1])].kind = "respond"
           /\ plan[1][Len(plan[1])].status = 500
           /\ (args.endpoint = "forecast" \/ m = TRAIN_METRICS[1])
              => plan[1][Len(plan[1])].detail = "NoUsableModel"

(* C12 witness: a training request has written the run and the forecasts   *)
(* of its first metric and is about to fail on its second, for which no    *)
(* candidate is usable                                                     *)
C12_Witness ==
    /\ SelectsFor("total_orders")
    /\ args.endpoint = "train"
    /\ args.unusable = {"total_orders"}
    /\ WrittenRuns("total_revenue") # {}
    /\ WrittenForecasts("total_revenue") # {}
    /\ plan[1] = <<Respond(500, "NoUsableModel", None)>>

(* C13: on a series with fewer than 14 non-null observations               *)
(* detect_anomalies_enhanced returns the empty frame and raises nothing,   *)
(* whatever the contamination, valid or not.                               *)
C13_ShortSeriesEmptyResult ==
    (called = "detect_anomalies_enhanced" /\ Len(DropNa(args.df)) < 14)
    => (result.ok /\ result.rows = <<>>)

(* C13 witness: 13 of 15 days are non-null, one of them ten times the      *)
(* level, the contamination is one IsolationForest rejects, and the result *)
(* is empty                                                                *)
C13_Witness ==
    /\ called = "detect_anomalies_enhanced"
    /\ Len(args.df) = 15
    /\ Len(DropNa(args.df)) = 13
    /\ \E k \in 1..Len(args.df) : args.df[k].y = Some(1000000)
    /\ args.contamination = 900
    /\ result = [ok |-> TRUE, rows |-> <<>>]

(* the frame of the call with all its computed columns *)
OwnRows == DetectorRows(DropNa(args.df), args.det)

(* C14: on a series of 14 or more observations the rows returned are, in   *)
(* date order, exactly the days IsolationForest flagged or whose z-score   *)
(* is beyond 2.5 in absolute value.                                        *)
C14_FlaggedOrBeyondThreshold ==
    (/\ called = "detect_anomalies_enhanced"
     /\ Len(DropNa(args.df)) >= 14
     /\ result.ok)
    => /\ \A rows \in {OwnRows} :
            result.rows
              = SelectSeq(rows, LAMBDA r : r.if_anomaly \/ r.z_score > 2500
                                                       \/ r.z_score < -2500)
       /\ \A i, j \in 1..Len(result.rows) :
              i < j => result.rows[i].ds < result.rows[j].ds

(* C14 witness: one returned day has only the z-score beyond 2.5, another  *)
(* has only the IsolationForest flag, and some day is not returned         *)
C14_Witness ==
    /\ called = "detect_anomalies_enhanced"
    /\ Len(DropNa(args.df)) >= 14
    /\ result.ok
    /\ \E i \in 1..Len(result.rows) :
          ~result.rows[i].if_anomaly /\ Abs(result.rows[i].z_score) > 2500
    /\ \E i \in 1..Len(result.rows) :
          result.rows[i].if_anomaly /\ Abs(result.rows[i].z_score) <= 2500
    /\ Len(result.rows) < Len(DropNa(args.df))

(* C15: the severity of a row is critical when |z_score| > 4 or            *)
(* |deviation_pct| > 50, otherwise high when |z_score| > 3 or              *)
(* |deviation_pct| > 30, otherwise medium when |z_score| > 2 or            *)
(* |deviation_pct| > 15, otherwise low; a value on a boundary is in the    *)
(* tier below it.                                                          *)
C15_SeverityTiers ==
    called = "DetectorRow"
    => LET z == Abs(result.z_score)
           dev == Abs(result.deviation_pct)
       IN /\ result.severity = "critical" <=> (z > 4000 \/ dev > 50000)
          /\ result.severity = "high"
                <=> (z <= 4000 /\ dev <= 50000 /\ (z > 3000 \/ dev > 30000))
          /\ result.severity = "medium"
                <=> (z <= 3000 /\ dev <= 30000 /\ (z > 2000 \/ dev > 15000))
          /\ result.severity = "low" <=> (z <= 2000 /\ dev <= 15000)

(* C15 witness: a z-score of exactly 4 with a small deviation is high, not *)
(* critical                                                                *)
C15_Witness ==
    /\ called = "DetectorRow"
    /\ result.z_score = 4000
    /\ Abs(result.deviation_pct) <= 15000
    /\ result.severity = "high"

(* C16: a flagged row is given the urgent action exactly when it is a      *)
(* weekday drop of severity high or critical, and every other flagged row  *)
(* is given the monitoring guidance.                                       *)
C16_UrgentOnlyForSevereWeekdayDrops ==
    (called = "DetectorRow" /\ result.is_anomaly)
    => IF /\ ~result.is_weekend
          /\ result.anomaly_type = Some("drop")
          /\ result.severity \in {"high", "critical"}
       THEN result.recommended_action = Some("URGENT")
       ELSE result.recommended_action = Some("Monitor")

(* C18: on a series of consecutive days that all have the value 100, 60   *)
(* of them or any number from 14 on, detect_anomalies_enhanced returns no  *)
(* rows: every day has expected 100, a deviation of 0 that is replaced by  *)
(* 1, deviation_pct 0 and z_score 0, and no day is flagged.                *)
C18_FlatSeriesNoAnomalies ==
    (/\ called = "detect_anomalies_enhanced"
     /\ Len(args.df) >= 14
     /\ \A k \in 1..Len(args.df) : args.df[k].y = Some(DETECT_LEVEL)
     /\ ~IsolationForestRejects(args.contamination))
    => /\ result = [ok |-> TRUE, rows |-> <<>>]
       /\ \A rows \in {OwnRows} :
              /\ Len(rows) = Len(args.df)
              /\ \A k \in 1..Len(rows) :
                    /\ rows[k].expected = DETECT_LEVEL
                    /\ rows[k].std = 0
                    /\ ReplaceZero(rows[k].std) = 1000
                    /\ rows[k].deviation_pct = 0
                    /\ rows[k].z_score = 0
                    /\ ~rows[k].if_anomaly
                    /\ ~rows[k].is_anomaly

(* C18 witness: 60 days at 100, the default contamination, a detector      *)
(* input that marks the last two days, and an empty result                 *)
C18_Witness ==
    /\ called = "detect_anomalies_enhanced"
    /\ Len(args.df) = 60
    /\ \A k \in 1..Len(args.df) : args.df[k] = [ds |-> k, y |-> Some(DETECT_LEVEL)]
    /\ args.contamination = DEFAULT_CONTAMINATION
    /\ args.det = "both"
    /\ result = [ok |-> TRUE, rows |-> <<>>]

(* the metrics an endpoint accepts *)
MetricsOf(endpoint) ==
    IF endpoint = "forecast" THEN VALID_METRICS
    ELSE IF endpoint = "anomalies" THEN ANOMALY_METRICS
    ELSE BACKTEST_METRICS

(* the request in progress names a metric its endpoint does not support *)
BadMetric ==
    /\ args # None
    /\ args.endpoint \in {"forecast", "anomalies", "backtest"}
    /\ args.req.metric \notin MetricsOf(args.endpoint)

(* the request in progress names a supported metric and a model that is    *)
(* neither 'auto' nor registered, and the KPI table has rows               *)
UnknownModel ==
    /\ args # None
    /\ args.endpoint \in {"forecast", "backtest"}
    /\ args.req.metric \in MetricsOf(args.endpoint)
    /\ args.has_data
    /\ ~normalize_model_name(args.req.model).ok

(* the rows of the three tables written since the request arrived *)
WrittenRows ==
    {<<"run", i>> : i \in {j \in 1..Len(runs) : runs[j].run_timestamp = clock}}
    \cup {<<"forecast", i>> :
             i \in {j \in 1..Len(forecasts) : forecasts[j].updated_at = clock}}
    \cup {<<"anomaly", i>> :
             i \in {j \in 1..Len(anomalies) : anomalies[j].updated_at = clock}}

(* C19: a forecast, anomaly or backtest request with an unsupported metric *)
(* or with an explicitly requested unknown model is answered with the      *)
(* caller's input error, status 400, and writes no row to any table.       *)
C19_InputErrorsRejectedWithoutWrites ==
    (BadMetric \/ UnknownModel)
    => /\ WrittenRows = {}
       /\ plan[1] = <<Respond(400, IF BadMetric THEN "InvalidMetric"
                                   ELSE "InvalidModel", None)>>

(* the sum of |actual - predicted| / |actual| * 100, in thousandths of a   *)
(* percent, over the positions from i on where actual is not 0             *)
RECURSIVE PercentageErrors(_, _, _)
PercentageErrors(actual, predicted, i) ==
    IF i > Len(actual) THEN 0
    ELSE (IF actual[i] = 0 THEN 0
          ELSE (Abs(actual[i] - predicted[i]) * 100000) \div Abs(actual[i]))
         + PercentageErrors(actual, predicted, i + 1)

(* C20: calculate_mape is the mean of |actual - predicted| / |actual| * 100 *)
(* over the positions where actual is not 0 and no others, it is 0 when    *)
(* there is no such position, and it is 0 when predicted equals actual.    *)
C20_MapeOverNonZeroActuals ==
    called = "calculate_mape"
    => LET nonzero == {i \in 1..Len(args.actual) : args.actual[i] # 0}
       IN /\ nonzero = {} => result = 0
          /\ nonzero # {}
             => result = PercentageErrors(args.actual, args.predicted, 1)
                           \div Cardinality(nonzero)
          /\ args.predicted = args.actual => result = 0

(* C20 witness: one actual is 0, another is not and is missed by the       *)
(* prediction, and the mean is taken over the second alone: |1 - 4| / 1    *)
C20_Witness ==
    /\ called = "calculate_mape"
    /\ args.actual = <<0, 1000>>
    /\ args.predicted = <<4000, 4000>>
    /\ result = 300000

(* C21: naive_baseline_forecast returns horizon values: the mean of train  *)
(* throughout when train has fewer than 7 values, and otherwise the last 7 *)
(* values of train repeated in order, value i (from 0) being               *)
(* train[len(train) - 7 + (i mod 7)].                                      *)
C21_NaiveBaselineWeeklyRepeat ==
    called = "naive_baseline_forecast"
    => /\ Len(result) = args.horizon
       /\ \A i \in 0..(args.horizon - 1) :
              IF Len(args.train) < 7
              THEN result[i + 1] * Len(args.train) = SumSeq(args.train)
              ELSE result[i + 1] = args.train[(Len(args.train) - 7 + (i % 7)) + 1]

(* C21 witness: train 10, 20, ..., 70 and horizon 7 give train back *)
C21_Witness ==
    /\ called = "naive_baseline_forecast"
    /\ args.train = <<10000, 20000, 30000, 40000, 50000, 60000, 70000>>
    /\ args.horizon = 7
    /\ result = args.train

(* C22: every row of ml_anomalies_daily that an anomaly or training        *)
(* request writes carries, for its date, the values the detector computed  *)
(* for that day: actual and expected (to two decimals), deviation_pct,     *)
(* z_score, anomaly_type, severity, is_weekend, day_of_week,               *)
(* business_interpretation and recommended_action.                         *)
C22_PersistedAnomalyCarriesDetectorValues ==
    (args # None /\ args.endpoint \in {"anomalies", "train"})
    => \A i \in 1..Len(anomalies) :
          anomalies[i].updated_at = clock
          => \E k \in 1..Len(args.detected) :
                /\ args.detected[k].ds = anomalies[i].date
                /\ anomalies[i].actual_value = Round2(args.detected[k].y)
                /\ anomalies[i].expected_value = Round2(args.detected[k].expected)
                /\ anomalies[i].deviation_pct = args.detected[k].deviation_pct
                /\ anomalies[i].z_score = args.detected[k].z_score
                /\ anomalies[i].anomaly_type = args.detected[k].anomaly_type
                /\ anomalies[i].severity = args.detected[k].severity
                /\ anomalies[i].is_weekend = args.detected[k].is_weekend
                /\ anomalies[i].day_of_week = args.detected[k].day_of_week
                /\ anomalies[i].business_interpretation
                      = args.detected[k].business_interpretation
                /\ anomalies[i].recommended_action
                      = args.detected[k].recommended_action

(* C23: when backtest_model returns a bundle for a holdout of H days, the  *)
(* test set is the last H days of the prepared series and the train set is *)
(* all the days before them, in order: the bundle's actuals are the last H *)
(* values, test_samples is H, the train range is the first day to the day  *)
(* before the holdout, and the baseline is computed from the values before *)
(* the holdout.                                                            *)
C23_HoldoutIsLastDays ==
    (called = "backtest_model" /\ result.ok)
    => \A prepared \in {prepare_metric_series(args.df)} :
          LET n == Len(prepared)
              H == args.test_days
              train == SubSeq(prepared, 1, n - H)
              test == SubSeq(prepared, n - H + 1, n)
          IN /\ H >= 1
             /\ n - H >= BACKTEST_MIN_EXTRA
             /\ train \o test = prepared
             /\ result.test_samples = H
             /\ Len(result.actuals) = H
             /\ \A k \in 1..H : result.actuals[k] = test[k].y
             /\ result.train_start = prepared[1].ds
             /\ result.train_end = prepared[n - H].ds
             /\ result.train_end + 1 = test[1].ds
             /\ result.baseline_mape
                   = Round2(calculate_mape(
                         [k \in 1..H |-> test[k].y],
                         naive_baseline_forecast(
                             [k \in 1..(n - H) |-> train[k].y], H)))

(* C23 witness: 45 days with a holdout of 15: the train range is days 1 to *)
(* 30 and the 15 actuals are the values of days 31 to 45                   *)
C23_Witness ==
    /\ called = "backtest_model"
    /\ result.ok
    /\ args.test_days = 15
    /\ Len(args.df) = 45
    /\ result.train_start = 1
    /\ result.train_end = 30
    /\ result.test_samples = 15
    /\ \A k \in 1..15 : Some(result.actuals[k]) = args.df[30 + k].y
    /\ result.actuals[1] # result.actuals[15]

(***************************************************************************)
(* C24: every row that detect_anomalies_enhanced returns has the type      *)
(* 'spike' or 'drop', 'spike' when the actual value is above the expected  *)
(* one and 'drop' when it is below; no returned row has a missing type,    *)
(* and the interpretation of a row is the one of its type.                 *)
(***************************************************************************)
C24_ReturnedRowsAreSpikeOrDrop ==
    (called = "detect_anomalies_enhanced" /\ result.ok)
    => \A k \in 1..Len(result.rows) :
          LET r == result.rows[k]
          IN /\ r.anomaly_type \in {Some("spike"), Some("drop")}
             /\ (r.anomaly_type = Some("spike")) = (r.y > r.expected)
             /\ (r.anomaly_type = Some("drop")) = (r.y < r.expected)
             /\ (r.business_interpretation
                    \in {Some("Unusual weekend spike"), Some("Unexpected high")})
                = (r.anomaly_type = Some("spike"))
             /\ (r.business_interpretation
                    \in {Some("Weekend drop"), Some("Weekday underperformance")})
                = (r.anomaly_type = Some("drop"))

C28_EtsRecordsOrderedAndDated ==
    (called = "forecast_with_model" /\ args.model_type = "ets" /\ result.ok)
    => \A prepared \in {prepare_metric_series(args.df)} :
          /\ Len(result.records) = args.forecast_days
          /\ \A k \in 1..Len(result.records) :
                /\ result.records[k].date = prepared[Len(prepared)].ds + k
                /\ result.records[k].lower_bound <= result.records[k].predicted
                /\ result.records[k].predicted <= result.records[k].upper_bound

(* C28 witness: seven records of a fit whose output turns negative: one    *)
(* with 0 = lower < predicted < upper, one with 0 = lower = predicted <    *)
(* upper and one with all three clipped to 0.                              *)
C28_Witness ==
    /\ called = "forecast_with_model" /\ args.model_type = "ets" /\ result.ok
    /\ Len(result.records) = 7
    /\ \E k \in 1..7 : LET r == result.records[k]
                        IN r.lower_bound = 0 /\ 0 < r.predicted /\ r.predicted < r.upper_bound
    /\ \E k \in 1..7 : LET r == result.records[k]
                        IN r.lower_bound = 0 /\ r.predicted = 0 /\ 0 < r.upper_bound
    /\ \E k \in 1..7 : LET r == result.records[k]
                        IN r.lower_bound = 0 /\ r.predicted = 0 /\ r.upper_bound = 0

(* the scores of the backtests that succeed in the environments *)
EnvScores ==
    UNION {{[metric |-> metric, model_type |-> ForecastModelType(m),
             mape |-> Some(bt.mape), smape |-> Some(bt.smape),
             rmse |-> Some(bt.rmse), mae |-> Some(bt.mae),
             baseline_mape |-> Some(bt.baseline_mape)] :
               bt \in {b \in {backtest_model(env.df, metric, m, DEFAULT_TEST_DAYS,
                                              EnvLibs(env, metric)[m])} : b.ok}} :
           env \in Envs, metric \in VALID_METRICS, m \in {"prophet", "ets"}}

(***************************************************************************)
(* C26: at every instant, every row of ml_forecast_daily references a row  *)
(* of ml_model_runs that exists, written by the same request for the same  *)
(* metric and for the model that the forecast names, and that row carries  *)
(* the scores of a successful backtest of that model (mape, smape, rmse,   *)
(* mae and baseline mape, none of them NULL): the handlers write no        *)
(* forecast before the backtest succeeded and the run row was inserted.    *)
(***************************************************************************)
C26_ForecastsReferenceScoredRun ==
    \A i \in 1..Len(forecasts) :
        \E j \in 1..Len(runs), m \in {"prophet", "ets"} :
            /\ forecasts[i].model_run_id = Some(runs[j].run_id)
            /\ forecasts[i].model_name = ModelDisplayName(m)
            /\ runs[j].model_type = ForecastModelType(m)
            /\ runs[j].target_metric = forecasts[i].metric_name
            /\ runs[j].run_timestamp = forecasts[i].updated_at
            /\ None \notin {runs[j].mape, runs[j].smape, runs[j].rmse, runs[j].mae,
                             runs[j].baseline_mape}
            /\ [metric |-> runs[j].target_metric, model_type |-> runs[j].model_type,
                mape |-> runs[j].mape, smape |-> runs[j].smape,
                rmse |-> runs[j].rmse, mae |-> runs[j].mae,
                baseline_mape |-> runs[j].baseline_mape] \in EnvScores

(* C26 witness: a training request between two of its writes: forecast     *)
(* rows of its first horizon are stored, each with the id of the run that  *)
(* the request inserted, and its jobs for the next horizon are still       *)
(* ahead.                                                                  *)
C26_Witness ==
    /\ args # None /\ args.endpoint = "train"
    /\ \E i \in 1..Len(forecasts) : \E j \in 1..Len(runs) :
          /\ forecasts[i].updated_at = clock
          /\ forecasts[i].model_run_id = Some(runs[j].run_id)
          /\ runs[j].run_timestamp = clock /\ runs[j].mape # None
    /\ \E k \in 1..Len(plan[1]) : plan[1][k].kind = "forecasts"

(* the step is the abort of a save call of p: one of its statements raised *)
SaveAborted(p) ==
    /\ InJob(p, "forecasts") \/ InJob(p, "anomalies")
    /\ Len(plan'[p]) = 1
    /\ plan'[p][1].kind = "respond" /\ plan'[p][1].status = 500

(* the step is the commit of a save call of p, with all its statements     *)
(* executed                                                                *)
SaveCommitted(p, kind) ==
    /\ InJob(p, kind)
    /\ idx[p] = Len(Job(p).records)
    /\ plan'[p] = Tail(plan[p])

(***************************************************************************)
(* C27: a call of save_forecasts_to_db or save_anomalies_to_db is all or   *)
(* nothing.  The tables change only in the step that commits a call, after *)
(* every statement of the call was executed, and then every row of the     *)
(* call is visible; a statement of the call changes no table; when a       *)
(* statement raises, no table changes (the rows executed before it are not *)
(* committed), nothing but the error is left of the call, and the error is *)
(* what its caller gets.                                                   *)
(***************************************************************************)
C27_SaveCallAllOrNothing ==
    [][/\ \A p \in Procs :
             /\ SaveAborted(p)
                  => forecasts' = forecasts /\ anomalies' = anomalies
             /\ idx'[p] = idx[p] + 1
                  => forecasts' = forecasts /\ anomalies' = anomalies
             /\ (InJob(p, "respond") /\ Job(p).status = 500 /\ plan'[p] = <<>>)
                  => /\ resp'[p].status = 500 /\ resp'[p].detail = Job(p).detail
                     /\ forecasts' = forecasts /\ anomalies' = anomalies
       /\ forecasts' # forecasts
            => \E p \in Procs :
                  /\ SaveCommitted(p, "forecasts")
                  /\ \A k \in 1..Len(Job(p).records) :
                        KeyIndexes(forecasts', Job(p).records[k].date, Job(p).metric) # {}
       /\ anomalies' # anomalies
            => \E p \in Procs :
                  \/ InJob(p, "ack")
                  \/ /\ SaveCommitted(p, "anomalies")
                     /\ \A k \in 1..Len(Job(p).records) :
                           KeyIndexes(anomalies', Job(p).records[k].date, Job(p).metric) # {}
      ]_vars

(* C27 witness: the second statement of a save call of two rows raised:    *)
(* the call is left with the error alone, and the row of its first         *)
(* statement is not in the table, which is empty.                          *)
C27_Witness ==
    \E p \in Procs :
        /\ plan[p] = <<Respond(500, "OperationalError", None)>>
        /\ idx[p] = 1
        /\ forecasts = <<>> /\ anomalies = <<>>

(* the line number that a restart of the streamer would read *)
SavedLine == IF state_file.content = "json" THEN state_file.line_number ELSE 0

(* the CSV rows that raw_transactions holds *)
CommittedRows == {raw_transactions[i] : i \in 1..Len(raw_transactions)}

IsSuffix(b, seq) ==
    /\ Len(b) <= Len(seq)
    /\ SubSeq(seq, Len(seq) - Len(b) + 1, Len(seq)) = b

(***************************************************************************)
(* C29: through batches, crashes and restarts of the streamer, the line    *)
(* number of the state file never exceeds the number of CSV rows committed *)
(* to raw_transactions, and no row is skipped: every row up to the saved   *)
(* line is in the table, the rows of the table have no gap, and every row  *)
(* the reader has passed is in the table or in the batch at hand.  The     *)
(* line number of the state file changes only in the save_state that       *)
(* follows the commit of the batch that ends at that line, and the table   *)
(* grows only by a batch of consecutive rows that starts after the line    *)
(* the streamer had reached.                                               *)
(***************************************************************************)
C29_SavedLineFollowsCommit ==
    /\ [](/\ SavedLine <= Cardinality(CommittedRows)
          /\ SavedLine <= csv_rows
          /\ \A k \in 1..SavedLine : k \in CommittedRows
          /\ CommittedRows = 1..Cardinality(CommittedRows)
          /\ (streamer.pc \notin {"stopped", "done"} /\ streamer.mode = "stream")
                => /\ \A k \in 1..streamer.index :
                         \/ k \in CommittedRows
                         \/ \E j \in 1..Len(streamer.batch) : streamer.batch[j] = k
                   /\ streamer.pc = "end_pass"
                         => SavedLine = streamer.index)
    /\ [][/\ (state_file' # state_file /\ state_file'.content = "json")
               => /\ streamer.batch # <<>>
                  /\ state_file'.line_number = streamer.batch[Len(streamer.batch)]
                  /\ IsSuffix(streamer.batch, raw_transactions)
                  /\ raw_transactions' = raw_transactions
          /\ raw_transactions' # raw_transactions
               => /\ raw_transactions' = raw_transactions \o streamer.batch
                  /\ \A j \in 1..Len(streamer.batch) :
                        streamer.batch[j] = streamer.line_number + j
                  /\ state_file' = state_file]_vars

(* C29 witness: the streamer died between the commit of a batch and the    *)
(* save of its line, and after the restart it has inserted the batch a     *)
(* second time and saved its line: the table holds a row twice, and the    *)
(* state file the line of the last row.                                    *)
C29_Witness ==
    /\ crashes >= 1
    /\ state_file.content = "json"
    /\ state_file.line_number = MaxCsvRows
    /\ \E i, j \in 1..Len(raw_transactions) :
          i < j /\ raw_transactions[i] = raw_transactions[j]

(* the cycle in progress raised in its try block, or a critical check did  *)
(* not pass                                                                *)
CycleFailed(outcome) ==
    \/ outcome.etl = "raises"
    \/ outcome.dq = "raises"
    \/ \E k \in 1..Len(outcome.results) :
          ~outcome.results[k].passed /\ outcome.results[k].severity = "critical"

RunningRows == {i \in 1..Len(etl_run_log) : etl_run_log[i].status = "running"}

(***************************************************************************)
(* C30: a row of etl_run_log is created 'running' and is updated once at   *)
(* most, by the finish_etl_run of the cycle that created it.  When         *)
(* run_etl_cycle is past its finish_etl_run, and so when it returns, the   *)
(* row of the cycle has been updated exactly once, to 'failed' if          *)
(* run_full_etl or the checks raised or a critical check did not pass, and *)
(* to 'success' otherwise.  A row is 'running' only while its cycle is     *)
(* before its finish_etl_run, or when the process died in the cycle: a     *)
(* raise of the ETL step or of the checks leaves no row 'running'.         *)
(***************************************************************************)
C30_EtlRunClosedOnce ==
    /\ [](/\ \A i \in 1..Len(etl_run_log) :
                /\ etl_run_log[i].run_id = i
                /\ etl_run_log[i].updates <= 1
                /\ (etl_run_log[i].status = "running") = (etl_run_log[i].updates = 0)
                /\ etl_run_log[i].status \in {"running", "success", "failed"}
          /\ streamer.pc \in {"etl_refresh", "trigger_ml"}
                => /\ etl_run_log[streamer.run_id].updates = 1
                   /\ etl_run_log[streamer.run_id].status =
                         (IF CycleFailed(streamer.outcome) THEN "failed" ELSE "success")
          /\ Cardinality(RunningRows
                         \ (IF streamer.pc \in {"etl_try", "etl_finish"}
                            THEN {streamer.run_id} ELSE {})) <= crashes)
    /\ [][/\ Len(etl_run_log') >= Len(etl_run_log)
          /\ \A i \in 1..Len(etl_run_log) :
                etl_run_log'[i] # etl_run_log[i]
                   => /\ streamer.pc = "etl_finish" /\ streamer.run_id = i
                      /\ etl_run_log[i].status = "running"
                      /\ etl_run_log'[i].status \in {"success", "failed"}
          /\ (streamer.pc \in {"etl_refresh", "trigger_ml"}
                /\ streamer'.pc \in {"batch_done", "done"})
                => /\ etl_run_log[streamer.run_id].updates = 1
                   /\ etl_run_log' = etl_run_log]_vars

(* C30 witness: a cycle whose checks raised is past its finish_etl_run     *)
(* with its row 'failed', after a cycle that ended 'success' although a    *)
(* check of severity warning had not passed.                               *)
C30_Witness ==
    /\ streamer.pc = "etl_refresh"
    /\ streamer.outcome.dq = "raises"
    /\ etl_run_log[streamer.run_id].status = "failed"
    /\ \E i \in 1..Len(etl_run_log) : etl_run_log[i].status = "success"

====
